---- MODULE Spec2Model ----
(***************************************************************************)
(* Transaction coordinator of src/server/transaction.cc.                   *)
(*                                                                         *)
(* Coordinator fibers (one per transaction) and shard threads are modelled *)
(* as interleaved atomic steps.  A coordinator step is the code between    *)
(* two suspension points (RunBriefInParallel, WaitForShardCallbacks); a    *)
(* shard step is one task run to completion on the shard thread.           *)
(* The shard-side collaborators that are not part of transaction.cc        *)
(* (IntentLock, DbSlice lock table, TxQueue, EngineShard::PollExecution)   *)
(* are modelled from their documented interface.                           *)
(***************************************************************************)
EXTENDS Integers, Sequences, FiniteSets, TLC

\* ------------------------------------------------------------------ bounds
\* op_seq is capped so that the schedule/cancel/retry loop is bounded.
MaxSeq == 4
\* Calls of BreakOnClose a connection makes on its transaction.
MaxBreak == 2
\* Keys of one command, and the largest index of its first key.
MaxKeys == 3
MaxKeyStart == 2
\* The sub-commands of one MULTI/EXEC batch in the argument-routing model.
MaxSubCmds == 3

\* ------------------------------------------------------------ environment
Shards == {0, 1}
Tx == {1, 2, 3}
Keys == {"a", "b", "c"}
NoTx == 0
kEnd == 0
\* The value notify_txid_ holds while no shard has awakened the transaction;
\* it is above every txid op_seq hands out.
kuint64max == 1000000
\* min_arg_indx starts above every argument index; no shard has this id.
UINT32_MAX == 1000000
kInvalidSid == 65535

\* Key router: "a" and "c" live on shard 0, "b" on shard 1.
Shard(key) == IF key \in {"a", "c"} THEN 0 ELSE 1

SHARED == "SHARED"
EXCLUSIVE == "EXCLUSIVE"
Modes == {SHARED, EXCLUSIVE}

\* LocalMask flags
ARMED == "ARMED"
OUT_OF_ORDER == "OUT_OF_ORDER"
KEYLOCK_ACQUIRED == "KEYLOCK_ACQUIRED"
SUSPENDED_Q == "SUSPENDED_Q"
AWAKED_Q == "AWAKED_Q"
EXPIRED_Q == "EXPIRED_Q"

\* CoordinatorState flags
COORD_SCHED == "COORD_SCHED"
COORD_EXEC == "COORD_EXEC"
COORD_EXEC_CONCLUDING == "COORD_EXEC_CONCLUDING"
COORD_BLOCKED == "COORD_BLOCKED"
COORD_CANCELLED == "COORD_CANCELLED"
COORD_OOO == "COORD_OOO"

\* Command descriptors.  A command has option flags (GLOBAL_TRANS, READONLY),
\* the keys of its arguments and the number of hops its implementation runs.
Cmd(global, ro, keys, hops) == [global |-> global, ro |-> ro, keys |-> keys, hops |-> hops]

\* A client request: multi is "none" for a plain command, "exec" for a
\* MULTI/EXEC batch, "eval" for a script.  cmds[1] is the command the
\* transaction is constructed with; for multi, cmds[2..] are the sub-commands.
\* A blocking command is a plain command whose implementation ends with
\* WaitOnWatch instead of a concluding hop: multi is "wait" when it passes no
\* deadline (time_point::max()) and "wait_until" when it passes one.
Request(multi, cmds) == [multi |-> multi, cmds |-> cmds]

IsMultiRequest(req) == req.multi \in {"exec", "eval"}
IsBlockingRequest(req) == req.multi \in {"wait", "wait_until"}

VARIABLES
  op_seq,              \* process-global txid counter
  txq,                 \* [Shards -> Seq of queue records], ordered by score
  committed_txid,      \* [Shards -> Nat]
  shard_lock,          \* [Shards -> IntentLock]
  lock_table,          \* [Keys -> IntentLock]; key k lives in db_slice of Shard(k)
  continuation_trans,  \* [Shards -> Tx \cup {NoTx}]
  tr,                  \* [Tx -> Transaction object + coordinator position]
  brief_tasks,         \* [Tx -> SUBSET Shards]: outstanding tasks of the current parallel round
  exec_tasks,          \* [Tx -> [Shards -> Nat]]: ExecuteAsync callbacks not run yet
  request,             \* [Tx -> Request]: what the client of each transaction asked for
  runlog,              \* history: [Shards -> Seq(Tx)], order of callback invocations
  held,                \* history: [Tx -> [Keys -> [Modes -> Int]]], key lock units acquired
                       \*          minus released by each transaction
  sheld,               \* history: [Tx -> [Shards -> [Modes -> Int]]], the same for shard locks
  atx                  \* [ArgTx -> transaction object with its argument list kept in order]

vars == <<op_seq, txq, committed_txid, shard_lock, lock_table, continuation_trans, tr,
          brief_tasks, exec_tasks, request, runlog, held, sheld, atx>>

\* --------------------------------------------------------------- IntentLock
FreeLock == [m \in Modes |-> 0]
OtherMode(m) == IF m = SHARED THEN EXCLUSIVE ELSE SHARED

\* Counters are unsigned in the code; a negative number here stands for the
\* wrapped value, which behaves the same under ++, --, == 0 and == 1.
IntentAcquire(l, m) == [l EXCEPT ![m] = @ + 1]
IntentGranted(l, m) == l[OtherMode(m)] = 0 /\ (m = SHARED \/ l[EXCLUSIVE] = 1)
IntentRelease(l, m, val) == [l EXCEPT ![m] = @ - val]
IntentCheck(l, m) == l[EXCLUSIVE] = 0 /\ (m = SHARED \/ l[SHARED] = 0)

\* ------------------------------------------------------------------ DbSlice
DbAcquire(lt, m, keys) == [k \in Keys |-> IF k \in keys THEN IntentAcquire(lt[k], m) ELSE lt[k]]
DbAcquireGranted(lt, m, keys) == \A k \in keys : IntentGranted(DbAcquire(lt, m, keys)[k], m)
DbRelease(lt, m, keys) == [k \in Keys |-> IF k \in keys THEN IntentRelease(lt[k], m, 1) ELSE lt[k]]
DbReleaseCount(lt, m, key, cnt) == [lt EXCEPT ![key] = IntentRelease(@, m, cnt)]
DbCheckLock(lt, m, keys) == \A k \in keys : IntentCheck(lt[k], m)

\* ------------------------------------------------------------------ TxQueue
\* A queue record is [h |-> handle, t |-> payload, score |-> txid at insert].
UsedHandles(q) == {q[i].h : i \in 1..Len(q)}
FreeHandle(q) == CHOOSE h \in 1..(Len(q) + 1) : h \notin UsedHandles(q) /\
                   \A g \in 1..(Len(q) + 1) : g \notin UsedHandles(q) => h <= g
TxqInsertAt(q, rec) ==
  LET before == SelectSeq(q, LAMBDA e : e.score <= rec.score)
      after == SelectSeq(q, LAMBDA e : e.score > rec.score)
  IN before \o <<rec>> \o after
TxqInsert(q, t, score) == TxqInsertAt(q, [h |-> FreeHandle(q), t |-> t, score |-> score])
TxqRemove(q, h) == SelectSeq(q, LAMBDA e : e.h # h)
TxqFront(q) == q[1].t
TxqTailScore(q) == q[Len(q)].score
TxqPopFront(q) == Tail(q)
TxqHas(q, t) == \E i \in 1..Len(q) : q[i].t = t


\* ------------------------------------------------------------- Transaction
Slots == Shards

\* Transaction::Transaction: multi_ is allocated for EXEC / EVAL; EVAL locks
\* all its keys at once (incremental = false).
NewTransaction(req) ==
  [ cid |-> 1,
    multi |-> IsMultiRequest(req),
    incremental |-> req.multi = "exec",
    multi_global |-> IsMultiRequest(req) /\ req.cmds[1].global,
    locks |-> [k \in Keys |-> FreeLock],
    locks_recorded |-> FALSE,
    txid |-> 0,
    coordinator_state |-> {},
    sd_size |-> 0,
    local_mask |-> [i \in Slots |-> {}],
    pq_pos |-> [i \in Slots |-> kEnd],
    arg_count |-> [i \in Slots |-> 0],
    args |-> {},
    unique_shard_cnt |-> 0,
    unique_shard_id |-> 0,
    run_count |-> 0,
    cb |-> FALSE,
    \* cb_ is AddToWatchedShardCb (the hop WaitOnWatch runs)
    watch |-> FALSE,
    notify_txid |-> kuint64max,
    \* shards on which WaitForConvergence has registered the transaction
    converging |-> {},
    \* what WaitOnWatch returned: "none" until it returns, then "true" / "false"
    wait_res |-> "none",
    \* history of the blocking wait: calls of BreakOnClose, calls of
    \* blocking_ec_.notify(), the committed_txid values passed by the
    \* NotifySuspended calls that awoke a slot, whether the deadline fired
    breaks |-> 0,
    ec_notify |-> 0,
    woke_with |-> {},
    timed_out |-> FALSE,
    \* history: decrements of run_count each shard made in the convergence barrier
    conv_dec |-> [s \in Slots |-> 0],
    success |-> 0,
    lock_granted_cnt |-> 0,
    \* history of the scheduling loop: iterations so far, and the shards whose
    \* ScheduleInShard returned lock_granted / saw a contended key or a held
    \* shard lock in the current iteration
    attempts |-> 0,
    granted_in |-> {},
    denied_in |-> {},
    hop |-> 0,
    ret |-> "none",
    pc |-> "new" ]

CurCmd(t) == request[t].cmds[tr[t].cid]

\* The operators below work on a record W that holds the part of the state
\* a shard thread can touch, so that RunInShard can be composed inside
\* PollExecution.  cmds is the command descriptor table of each transaction.
World == [ txq |-> txq, committed_txid |-> committed_txid, shard_lock |-> shard_lock,
           lock_table |-> lock_table, continuation_trans |-> continuation_trans,
           tr |-> tr, runlog |-> runlog, held |-> held, sheld |-> sheld, cmds |-> [t \in Tx |-> request[t].cmds] ]

WCmd(W, t) == W.cmds[t][W.tr[t].cid]

Mode(W, t) == IF WCmd(W, t).ro THEN SHARED ELSE EXCLUSIVE
IsGlobal(W, t) == WCmd(W, t).global
IsOOO(T) == COORD_OOO \in T.coordinator_state

SidToId(T, sid) == IF T.sd_size = 1 THEN 0 ELSE sid

KeysIn(keys, sid) == {k \in keys : Shard(k) = sid}

ShardArgsInShard(T, sid) == IF T.unique_shard_cnt = 1 THEN T.args ELSE KeysIn(T.args, sid)

\* KeyLockArgs of the transaction for a shard (db_index and key_step are fixed).
GetLockArgs(T, sid) == ShardArgsInShard(T, sid)

IsArmedInShard(T, sid) == T.run_count # 0 /\ ARMED \in T.local_mask[SidToId(T, sid)]

\* History bookkeeping of lock units taken and given back by a transaction.
HeldAdd(h, t, m, keys, n) ==
  [h EXCEPT ![t] = [k \in Keys |-> IF k \in keys THEN [h[t][k] EXCEPT ![m] = @ + n]
                                                  ELSE h[t][k]]]

\* Variant that leaves run_count alone.
DecreaseRunCnt_Skip(T) == T

\* run_count_.fetch_sub(1); the notification of run_ec_ is the enabling
\* condition of the coordinator step that follows WaitForShardCallbacks.
DecreaseRunCnt(T) == [T EXCEPT !.run_count = @ - 1]


\* ------------------------------------------------- shard side: RunInShard
\* Variant in which no hop releases.
ShouldRelease_Never(W, t) == FALSE

\* should_release of RunInShard; the function returns keep = !should_release.
ShouldRelease(W, t) == COORD_EXEC_CONCLUDING \in W.tr[t].coordinator_state /\ ~W.tr[t].multi

\* EngineShard::ProcessAwakened: services the watch queues.  The calls of
\* NotifySuspended it makes on the watchers of a key that became ready are
\* the NotifySuspended steps of the shard thread below.
ProcessAwakened(W, t, s) == W

\* Variant that registers without marking the slot.
AddToWatchedShardCb_NoMark(mask) == mask

\* AddToWatchedShardCb: registers the transaction on the watch queues of its
\* keys on this shard (the watchers of a shard are the transactions whose
\* slot has SUSPENDED_Q or AWAKED_Q) and marks the slot.
AddToWatchedShardCb(mask) == mask \cup {SUSPENDED_Q}

\* Variant that locks at every hop of a sub-command.
ShouldAcquire_EveryHop(incremental_lock, local_mask) == incremental_lock

\* Incremental locking locks once per sub-command and shard.
ShouldAcquire(incremental_lock, local_mask) ==
  incremental_lock /\ KEYLOCK_ACQUIRED \notin local_mask

\* The operators on a world record are nested several levels deep; each
\* takes the value W of its argument W0, so that it is computed once however
\* often the body refers to it.
RunInShard(W0, t, s) ==
  CHOOSE value \in {(
  LET T0 == W.tr[t]
      idx == SidToId(T0, s)
      mask1 == T0.local_mask[idx] \ {ARMED}
      incremental_lock == T0.multi /\ T0.incremental
      should_release == ShouldRelease(W, t)
      mode == Mode(W, t)
      largs == GetLockArgs(T0, idx)
      acquire == ShouldAcquire(incremental_lock, mask1)
      mask2 == IF acquire THEN mask1 \cup {KEYLOCK_ACQUIRED} ELSE mask1
      lt2 == IF acquire THEN DbAcquire(W.lock_table, mode, largs) ELSE W.lock_table
      held2 == IF acquire THEN HeldAdd(W.held, t, mode, largs, 1) ELSE W.held
      \* cb_(this, shard)
      mask3 == IF T0.watch THEN AddToWatchedShardCb(mask2) ELSE mask2
      log3 == [W.runlog EXCEPT ![s] = Append(@, t)]
      cb3 == IF T0.unique_shard_cnt = 1 THEN FALSE ELSE T0.cb
      \* remove from the tx-queue upon first invocation
      queued == T0.pq_pos[idx] # kEnd
      q4 == IF queued THEN TxqRemove(W.txq[s], T0.pq_pos[idx]) ELSE W.txq[s]
      \* final hop: release
      is_global == IsGlobal(W, t)
      is_suspended == SUSPENDED_Q \in mask3
      rel_shard == should_release /\ is_global
      rel_keys == should_release /\ ~is_global /\ ~is_suspended
      sl5 == IF rel_shard THEN IntentRelease(W.shard_lock[s], mode, 1) ELSE W.shard_lock[s]
      lt5 == IF rel_keys THEN DbRelease(lt2, mode, largs) ELSE lt2
      held5 == IF rel_keys THEN HeldAdd(held2, t, mode, largs, -1) ELSE held2
      mask5 == IF should_release /\ ~is_global
               THEN (IF is_suspended THEN mask3 ELSE mask3 \ {KEYLOCK_ACQUIRED}) \ {OUT_OF_ORDER}
               ELSE mask3
      T6 == DecreaseRunCnt([T0 EXCEPT !.local_mask[idx] = mask5, !.cb = cb3,
                                      !.pq_pos[idx] = kEnd])
      W6 == [W EXCEPT !.tr[t] = T6, !.txq[s] = q4, !.shard_lock[s] = sl5,
                      !.sheld[t][s][mode] = IF rel_shard THEN @ - 1 ELSE @,
                      !.lock_table = lt5, !.held = held5, !.runlog = log3]
  IN IF should_release /\ ~is_global
     THEN ProcessAwakened(W6, IF AWAKED_Q \in mask1 THEN t ELSE NoTx, s)
     ELSE W6) : W \in {W0}} : TRUE

\* ---------------------------------------- shard side: EngineShard polling
\* The loop over the head of the tx-queue: run the head while it is armed;
\* a head that must be kept becomes the continuation transaction.
\* The result is [w |-> world, trans |-> the polled transaction, NoTx once it ran].
RECURSIVE PollHeadLoop(_, _, _)
PollHeadLoop(W0, trans, s) ==
  CHOOSE value \in {(
  IF W.txq[s] = <<>> THEN [w |-> W, trans |-> trans]
  ELSE LET head == TxqFront(W.txq[s])
       IN IF ~IsArmedInShard(W.tr[head], s) THEN [w |-> W, trans |-> trans]
          ELSE LET trans2 == IF head = trans THEN NoTx ELSE trans
                   W1 == [W EXCEPT !.committed_txid[s] = W.tr[head].txid]
                   keep == ~ShouldRelease(W1, head)
                   W2 == RunInShard(W1, head, s)
               IN IF keep THEN [w |-> [W2 EXCEPT !.continuation_trans[s] = head],
                                trans |-> trans2]
                  ELSE PollHeadLoop(W2, trans2, s)) : W \in {W0}} : TRUE

PollContinuation(W, trans, s) ==
  LET c == W.continuation_trans[s]
  IN IF c = NoTx THEN [w |-> W, trans |-> trans]
     ELSE LET trans2 == IF trans = c THEN NoTx ELSE trans
          IN IF IsArmedInShard(W.tr[c], s)
             THEN LET to_keep == ~ShouldRelease(W, c)
                      W2 == RunInShard(W, c, s)
                  IN [w |-> IF to_keep THEN W2 ELSE [W2 EXCEPT !.continuation_trans[s] = NoTx],
                      trans |-> trans2]
             ELSE [w |-> W, trans |-> trans2]

\* EngineShard::PollExecution(context, trans); trans may be NoTx.
PollExecution(W0, trans, s) ==
  CHOOSE value \in {(
  LET trans_mask == IF trans = NoTx THEN {} ELSE W.tr[trans].local_mask[SidToId(W.tr[trans], s)]
      r1 == PollContinuation(W, trans, s)
      r2 == IF r1.w.continuation_trans[s] = NoTx THEN PollHeadLoop(r1.w, r1.trans, s) ELSE r1
  IN IF r2.trans # NoTx /\ OUT_OF_ORDER \in trans_mask
     THEN RunInShard(r2.w, r2.trans, s)
     ELSE r2.w) : W \in {W0}} : TRUE


\* Writes the shard-side part of the state back into the variables.
Commit(W0) ==
  \E W \in {W0} :
    /\ txq' = W.txq
    /\ committed_txid' = W.committed_txid
    /\ shard_lock' = W.shard_lock
    /\ lock_table' = W.lock_table
    /\ continuation_trans' = W.continuation_trans
    /\ tr' = W.tr
    /\ runlog' = W.runlog
    /\ held' = W.held
    /\ sheld' = W.sheld

ShardSide == <<txq, committed_txid, shard_lock, lock_table, continuation_trans, runlog, held,
               sheld>>

\* ------------------------------------------------------------- InitByArgs
\* Variant that resets the mask whatever the locking discipline is.
ResetMask_Always(incremental_locking, mask) == {}

\* local_mask is reset for incremental locking and preserved otherwise.
ResetMask(incremental_locking, mask) == IF incremental_locking THEN {} ELSE mask

InitByArgsRec(T, cmd) ==
  IF cmd.global
  THEN [T EXCEPT !.unique_shard_cnt = Cardinality(Shards), !.sd_size = Cardinality(Shards)]
  ELSE
  LET incremental_locking == T.multi /\ T.incremental
      single_key == ~T.multi /\ Cardinality(cmd.keys) = 1
  IN IF single_key
     THEN [T EXCEPT !.sd_size = 1, !.args = cmd.keys, !.unique_shard_cnt = 1,
                    !.unique_shard_id = Shard(CHOOSE k \in cmd.keys : TRUE)]
     ELSE
     LET mode == IF T.multi THEN (IF cmd.ro THEN SHARED ELSE EXCLUSIVE) ELSE EXCLUSIVE
         should_record_locks == T.multi /\ (incremental_locking \/ ~T.locks_recorded)
         locks2 == IF should_record_locks
                   THEN [k \in Keys |-> IF k \in cmd.keys THEN [T.locks[k] EXCEPT ![mode] = @ + 1]
                                                         ELSE T.locks[k]]
                   ELSE T.locks
         count == [i \in Slots |-> Cardinality(KeysIn(cmd.keys, i))]
         touched == {i \in Slots : count[i] # 0}
         cnt2 == T.unique_shard_cnt + Cardinality(touched)
         uid2 == IF touched = {} THEN T.unique_shard_id
                 ELSE CHOOSE i \in touched : \A j \in touched : j <= i
         shrink == cnt2 = 1 /\ ~T.multi
         sd == IF T.multi THEN uid2 ELSE 0
         count2 == [i \in Slots |-> IF cnt2 = 1 /\ i = sd THEN -1 ELSE count[i]]
         mask2 == [i \in Slots |-> ResetMask(incremental_locking, T.local_mask[i])]
     IN [T EXCEPT !.sd_size = IF shrink THEN 1 ELSE Cardinality(Shards),
                  !.locks = locks2,
                  !.locks_recorded = IF T.multi THEN TRUE ELSE @,
                  !.args = cmd.keys,
                  !.arg_count = count2,
                  !.local_mask = mask2,
                  !.unique_shard_cnt = cnt2,
                  !.unique_shard_id = uid2]

\* The client calls InitByArgs after constructing the transaction, and after
\* SetExecCmd for every sub-command of a multi transaction.
InitByArgs(t) ==
  /\ tr[t].pc = "new"
  /\ request[t].cmds # <<>>
  /\ LET T2 == InitByArgsRec(tr[t], CurCmd(t))
         first == tr[t].multi /\ tr[t].cid = 1
         next == IF ~first THEN "inited"
                 ELSE IF request[t].multi = "exec" THEN "next_cmd" ELSE "eval_sched"
     IN tr' = [tr EXCEPT ![t] = [T2 EXCEPT !.pc = next]]
  /\ UNCHANGED <<op_seq, brief_tasks, exec_tasks, request, atx>>
  /\ UNCHANGED ShardSide

\* --------------------------------------------------------- ExecuteAsync
SlotRange(T) == {i \in Slots : i < T.sd_size}

\* Slots armed by ExecuteAsync, and the shards its callback is dispatched to.
ArmedSlots(T, is_global) ==
  IF T.unique_shard_cnt = 1 THEN {SidToId(T, T.unique_shard_id)}
  ELSE {i \in SlotRange(T) : is_global \/ T.arg_count[i] # 0}

DispatchShards(T, is_global) ==
  IF ~is_global /\ T.unique_shard_cnt = 1 THEN {T.unique_shard_id}
  ELSE {i \in SlotRange(T) : is_global \/ T.arg_count[i] # 0}

ExecuteAsyncRec(T, is_global) ==
  [T EXCEPT !.local_mask = [i \in Slots |-> IF i \in ArmedSlots(T, is_global)
                                            THEN T.local_mask[i] \cup {ARMED}
                                            ELSE T.local_mask[i]],
            !.run_count = T.unique_shard_cnt]

ExecuteAsyncTasks(t, T, is_global) ==
  [exec_tasks EXCEPT ![t] = [s \in Shards |-> IF s \in DispatchShards(T, is_global)
                                              THEN exec_tasks[t][s] + 1
                                              ELSE exec_tasks[t][s]]]


\* ------------------------------------------------------ ScheduleInternal
\* is_active of ScheduleInternal, as the set of shards it selects.
ActiveShards(T, span_all) ==
  IF span_all THEN Shards
  ELSE IF T.unique_shard_cnt = 1 THEN {T.unique_shard_id}
  ELSE {i \in Shards : T.arg_count[i] # 0}

NumShards(T, span_all) == IF span_all THEN Cardinality(Shards) ELSE T.unique_shard_cnt

\* Entry of ScheduleInternal up to its first parallel round: a span-all
\* transaction first locks every shard.
EnterScheduleInternal(t, T, ret) ==
  IF CurCmd(t).global
  THEN /\ tr' = [tr EXCEPT ![t] = [T EXCEPT !.pc = "lock_shards", !.ret = ret]]
       /\ brief_tasks' = [brief_tasks EXCEPT ![t] = Shards]
  ELSE /\ tr' = [tr EXCEPT ![t] = [T EXCEPT !.pc = "sched_loop", !.ret = ret]]
       /\ UNCHANGED brief_tasks

\* shard->shard_lock()->Acquire(mode), run on every shard
LockShard(t, s) ==
  /\ tr[t].pc = "lock_shards"
  /\ s \in brief_tasks[t]
  /\ shard_lock' = [shard_lock EXCEPT ![s] = IntentAcquire(@, Mode(World, t))]
  /\ sheld' = [sheld EXCEPT ![t][s][Mode(World, t)] = @ + 1]
  /\ brief_tasks' = [brief_tasks EXCEPT ![t] = @ \ {s}]
  /\ UNCHANGED <<op_seq, txq, committed_txid, lock_table, continuation_trans, tr,
                 exec_tasks, request, runlog, held, atx>>

\* Variant that keeps lock_granted_cnt across iterations of the loop.
BeginAttempt_KeepGranted(T, txid) ==
  [T EXCEPT !.txid = txid, !.success = 0, !.attempts = @ + 1, !.granted_in = {},
            !.denied_in = {}, !.pc = "sched_wait"]

\* Head of the loop body: a fresh txid; success and lock_granted_cnt are
\* locals of the iteration and start at zero.
BeginAttempt(T, txid) ==
  [T EXCEPT !.txid = txid, !.success = 0, !.lock_granted_cnt = 0, !.attempts = @ + 1,
            !.granted_in = {}, !.denied_in = {}, !.pc = "sched_wait"]

\* One iteration of the loop up to RunBriefInParallel(ScheduleInShard).
ScheduleAttempt(t) ==
  /\ \/ tr[t].pc = "sched_loop"
     \/ tr[t].pc \in {"lock_shards", "cancel_wait"} /\ brief_tasks[t] = {}
  /\ op_seq <= MaxSeq
  /\ op_seq' = op_seq + 1
  /\ tr' = [tr EXCEPT ![t] = BeginAttempt(@, op_seq)]
  /\ brief_tasks' = [brief_tasks EXCEPT ![t] = ActiveShards(tr[t], CurCmd(t).global)]
  /\ UNCHANGED <<exec_tasks, request, atx>>
  /\ UNCHANGED ShardSide

\* The code only compares txids (with committed_txid, with TailScore and
\* inside the queue), so a behaviour is the same under any order-preserving
\* renumbering of the txids in use.  The number of x among the txids in use:
Rank(used, x) == IF x = 0 THEN 0 ELSE Cardinality({u \in used : u <= x})

\* The iteration of ScheduleAttempt over renumbered txids: op_seq stays
\* bounded however often the loop repeats, and a loop that repeats for ever
\* is a cycle of states.  The iteration count (a history field) is not kept.
ScheduleAttemptR(t) ==
  /\ \/ tr[t].pc = "sched_loop"
     \/ tr[t].pc \in {"lock_shards", "cancel_wait"} /\ brief_tasks[t] = {}
  /\ LET tr1 == [tr EXCEPT ![t] = [BeginAttempt(@, op_seq) EXCEPT !.attempts = 1]]
         used == ({tr1[u].txid : u \in Tx} \cup {committed_txid[s] : s \in Shards}
                    \cup UNION {{txq[s][i].score : i \in 1..Len(txq[s])} : s \in Shards}) \ {0}
     IN /\ op_seq' = Cardinality(used) + 1
        /\ tr' = [u \in Tx |-> [tr1[u] EXCEPT !.txid = Rank(used, @)]]
        /\ txq' = [s \in Shards |->
                     [i \in 1..Len(txq[s]) |-> [txq[s][i] EXCEPT !.score = Rank(used, @)]]]
        /\ committed_txid' = [s \in Shards |-> Rank(used, committed_txid[s])]
  /\ brief_tasks' = [brief_tasks EXCEPT ![t] = ActiveShards(tr[t], CurCmd(t).global)]
  /\ UNCHANGED <<shard_lock, lock_table, continuation_trans, exec_tasks, request, runlog,
                 held, sheld, atx>>

\* committed_txid() >= txid_: the txid is already in the past on this shard.
TxidInPast(committed, txid) == committed >= txid

\* lock_granted of ScheduleInShard
LockGranted(acquired, shard_unlocked) == acquired /\ shard_unlocked

\* to_proceed of ScheduleInShard, evaluated when the queue is not empty
ToProceed(lock_granted, q, txid) == lock_granted \/ TxqTailScore(q) < txid

\* The result is [w |-> world, scheduled, granted |-> the returned pair,
\* denied |-> the shard saw a contended key or a held shard lock].
ScheduleInShardRec(W, t, s) ==
  LET T == W.tr[t]
      q == W.txq[s]
      mode == Mode(W, t)
      spans_all == IsGlobal(W, t)
      sid == SidToId(T, s)
      lock_args == GetLockArgs(T, s)
      shard_unlocked == IntentCheck(W.shard_lock[s], mode)
      \* the intent lock is acquired whatever shard_unlocked says
      acquired == DbAcquireGranted(W.lock_table, mode, lock_args)
      lt1 == IF spans_all THEN W.lock_table ELSE DbAcquire(W.lock_table, mode, lock_args)
      held1 == IF spans_all THEN W.held ELSE HeldAdd(W.held, t, mode, lock_args, 1)
      mask1 == IF spans_all THEN T.local_mask[sid] ELSE T.local_mask[sid] \cup {KEYLOCK_ACQUIRED}
      lock_granted == ~spans_all /\ LockGranted(acquired, shard_unlocked)
      denied == ~spans_all /\ (~acquired \/ ~shard_unlocked)
      rollback == KEYLOCK_ACQUIRED \in mask1
  IN IF TxidInPast(W.committed_txid[s], T.txid)
     THEN [w |-> W, scheduled |-> FALSE, granted |-> FALSE, denied |-> FALSE]
     ELSE IF q # <<>> /\ ~ToProceed(lock_granted, q, T.txid)
     THEN [w |-> [W EXCEPT !.lock_table = IF rollback THEN DbRelease(lt1, mode, lock_args) ELSE lt1,
                           !.held = IF rollback THEN HeldAdd(held1, t, mode, lock_args, -1)
                                    ELSE held1,
                           !.tr[t].local_mask[sid] = mask1 \ {KEYLOCK_ACQUIRED}],
           scheduled |-> FALSE, granted |-> FALSE, denied |-> denied]
     ELSE [w |-> [W EXCEPT !.lock_table = lt1,
                           !.held = held1,
                           !.tr[t].local_mask[sid] = mask1,
                           !.txq[s] = TxqInsert(q, t, T.txid),
                           !.tr[t].pq_pos[sid] = FreeHandle(q)],
           scheduled |-> TRUE, granted |-> lock_granted, denied |-> denied]

ScheduleInShard(t, s) ==
  /\ tr[t].pc = "sched_wait"
  /\ s \in brief_tasks[t]
  /\ LET r == ScheduleInShardRec(World, t, s)
         b2i(b) == IF b THEN 1 ELSE 0
     IN Commit([r.w EXCEPT !.tr[t].success = @ + b2i(r.scheduled),
                           !.tr[t].lock_granted_cnt = @ + b2i(r.granted),
                           !.tr[t].granted_in = IF r.granted THEN @ \cup {s} ELSE @,
                           !.tr[t].denied_in = IF r.denied THEN @ \cup {s} ELSE @])
  /\ brief_tasks' = [brief_tasks EXCEPT ![t] = @ \ {s}]
  /\ UNCHANGED <<op_seq, exec_tasks, request, atx>>

\* Variant that leaves the key locks of the cancelled attempt in place.
CancelInShardRec_KeepLocks(W, t, s) ==
  LET T == W.tr[t]
      idx == SidToId(T, s)
      pos == T.pq_pos[idx]
  IN IF pos = kEnd THEN [w |-> W, cancelled |-> FALSE]
     ELSE [w |-> [W EXCEPT !.tr[t].pq_pos[idx] = kEnd, !.txq[s] = TxqRemove(@, pos)],
           cancelled |-> TRUE]

CancelInShardRec(W, t, s) ==
  LET T == W.tr[t]
      idx == SidToId(T, s)
      pos == T.pq_pos[idx]
      has_lock == KEYLOCK_ACQUIRED \in T.local_mask[idx]
      mode == Mode(W, t)
      lock_args == GetLockArgs(T, s)
  IN IF pos = kEnd THEN [w |-> W, cancelled |-> FALSE]
     ELSE [w |-> [W EXCEPT !.tr[t].pq_pos[idx] = kEnd,
                           !.txq[s] = TxqRemove(@, pos),
                           !.lock_table = IF has_lock THEN DbRelease(@, mode, lock_args) ELSE @,
                           !.held = IF has_lock THEN HeldAdd(@, t, mode, lock_args, -1) ELSE @,
                           !.tr[t].local_mask[idx] = @ \ {KEYLOCK_ACQUIRED}],
           cancelled |-> TRUE]

CancelInShard(t, s) ==
  /\ tr[t].pc = "cancel_wait"
  /\ s \in brief_tasks[t]
  /\ LET r == CancelInShardRec(World, t, s)
     IN Commit([r.w EXCEPT !.tr[t].success = IF r.cancelled THEN @ - 1 ELSE @])
  /\ brief_tasks' = [brief_tasks EXCEPT ![t] = @ \ {s}]
  /\ UNCHANGED <<op_seq, exec_tasks, request, atx>>

\* After RunBriefInParallel(ScheduleInShard): either the transaction is
\* scheduled, or the attempt is cancelled on the active shards.
\* success == num_shards
ScheduleSucceeded(success, num_shards) == success = num_shards

\* Variant that marks every single-hop transaction out of order.
AllowOOO_AnySingleHop(single_hop, lock_granted_cnt, num_shards) == single_hop

\* the condition under which COORD_OOO is set
AllowOOO(single_hop, lock_granted_cnt, num_shards) ==
  single_hop /\ lock_granted_cnt = num_shards

ScheduleCheckRec(T, span_all) ==
  LET single_hop == COORD_EXEC_CONCLUDING \in T.coordinator_state
      ooo == AllowOOO(single_hop, T.lock_granted_cnt, NumShards(T, span_all))
      state2 == T.coordinator_state \cup (IF ooo THEN {COORD_OOO} ELSE {}) \cup {COORD_SCHED}
      T2 == [T EXCEPT !.coordinator_state = state2]
  IN [T2 EXCEPT !.local_mask = [i \in Slots |-> IF IsOOO(T2) /\ i \in SlotRange(T)
                                               THEN T.local_mask[i] \cup {OUT_OF_ORDER}
                                               ELSE T.local_mask[i]]]

AfterSchedule(ret) ==
  CASE ret = "single_hop" -> "exec_async"
    [] ret = "exec" -> "scheduled"
    [] ret = "eval" -> "next_cmd"
    [] ret = "setexec" -> "setexec_tail"

ScheduleCheck(t) ==
  /\ tr[t].pc = "sched_wait"
  /\ brief_tasks[t] = {}
  /\ LET T == tr[t]
         span_all == CurCmd(t).global
     IN IF ScheduleSucceeded(T.success, NumShards(T, span_all))
        THEN /\ tr' = [tr EXCEPT ![t] = [ScheduleCheckRec(T, span_all)
                                           EXCEPT !.pc = AfterSchedule(T.ret)]]
             /\ UNCHANGED brief_tasks
        ELSE /\ tr' = [tr EXCEPT ![t].pc = "cancel_wait"]
             /\ brief_tasks' = [brief_tasks EXCEPT ![t] = ActiveShards(T, span_all)]
  /\ UNCHANGED <<op_seq, exec_tasks, request, atx>>
  /\ UNCHANGED ShardSide


\* ------------------------------------------------ coordinator: hop driving
\* ExecuteAsync as the last part of a coordinator step.
DoExecuteAsync(t, T) ==
  /\ tr' = [tr EXCEPT ![t] = [ExecuteAsyncRec(T, CurCmd(t).global) EXCEPT !.pc = "wait_hop"]]
  /\ exec_tasks' = ExecuteAsyncTasks(t, T, CurCmd(t).global)
  /\ UNCHANGED brief_tasks

\* ScheduleSingleHop up to its first suspension point.
ScheduleSingleHop(t) ==
  /\ tr[t].pc = "inited"
  /\ CurCmd(t).hops = 1
  /\ ~IsBlockingRequest(request[t])
  /\ LET T1 == [tr[t] EXCEPT !.cb = TRUE,
                            !.coordinator_state = @ \cup {COORD_EXEC, COORD_EXEC_CONCLUDING}]
         schedule_fast == T1.unique_shard_cnt = 1 /\ ~CurCmd(t).global /\ ~T1.multi
     IN IF schedule_fast
        THEN /\ tr' = [tr EXCEPT ![t] = [T1 EXCEPT !.local_mask[0] = @ \cup {ARMED},
                                                   !.run_count = @ + 1,
                                                   !.pc = "wait_hop"]]
             /\ brief_tasks' = [brief_tasks EXCEPT ![t] = {T1.unique_shard_id}]
             /\ UNCHANGED exec_tasks
        ELSE IF ~T1.multi
        THEN /\ EnterScheduleInternal(t, T1, "single_hop")
             /\ UNCHANGED exec_tasks
        ELSE DoExecuteAsync(t, T1)
  /\ UNCHANGED <<op_seq, request, atx>>
  /\ UNCHANGED ShardSide

\* ScheduleSingleHop after ScheduleInternal has returned.
ExecuteAsync(t) ==
  /\ tr[t].pc = "exec_async"
  /\ DoExecuteAsync(t, tr[t])
  /\ UNCHANGED <<op_seq, request, atx>>
  /\ UNCHANGED ShardSide

\* Schedule(): called by a multi-hop command, by a blocking command, and by
\* EVAL once its keys are known.
Schedule(t) ==
  /\ \/ /\ tr[t].pc = "inited" /\ ~tr[t].multi
        /\ CurCmd(t).hops > 1 \/ IsBlockingRequest(request[t])
     \/ tr[t].pc = "eval_sched"
  /\ EnterScheduleInternal(t, tr[t], IF tr[t].pc = "inited" THEN "exec" ELSE "eval")
  /\ UNCHANGED <<op_seq, exec_tasks, request, atx>>
  /\ UNCHANGED ShardSide

\* The last hop of a blocking command is the one WaitOnWatch runs.
IsWatchHop(t) == IsBlockingRequest(request[t]) /\ tr[t].hop + 1 = CurCmd(t).hops

\* Execute(cb, conclude) up to WaitForShardCallbacks; the last hop of a
\* command is the concluding one.
Execute(t) ==
  /\ \/ tr[t].pc = "scheduled" /\ ~IsWatchHop(t)
     \/ tr[t].pc = "inited" /\ tr[t].multi /\ CurCmd(t).hops > 1
  /\ LET conclude == tr[t].hop + 1 = CurCmd(t).hops
         T1 == [tr[t] EXCEPT !.cb = TRUE,
                            !.coordinator_state =
                               IF conclude THEN @ \cup {COORD_EXEC, COORD_EXEC_CONCLUDING}
                               ELSE (@ \cup {COORD_EXEC}) \ {COORD_EXEC_CONCLUDING}]
     IN DoExecuteAsync(t, T1)
  /\ UNCHANGED <<op_seq, request, atx>>
  /\ UNCHANGED ShardSide

\* seqlock_ is only read: by the load of the snapshot (line 704) and by
\* fetch_add(0) in the callback (line 720).  Nothing stores to it, so it
\* holds its initial value for the life of the transaction.
SeqLock(T) == 0

\* should_poll of the callback: seq is the snapshot taken at dispatch.
ShouldPoll(seq_after, seq, local_mask) == seq_after = seq /\ ARMED \in local_mask

\* The callback ExecuteAsync dispatches to a shard.  The callbacks of a
\* transaction on a shard run in the order of their dispatch; exec_tasks
\* counts the ones that have not run yet.
ExecCallback(t, s) ==
  /\ exec_tasks[t][s] > 0
  /\ exec_tasks' = [exec_tasks EXCEPT ![t][s] = @ - 1]
  /\ LET local_mask == tr[t].local_mask[SidToId(tr[t], s)]
         seq == SeqLock(tr[t])
         seq_after == SeqLock(tr[t])
         should_poll == ShouldPoll(seq_after, seq, local_mask)
     IN IF should_poll THEN Commit(PollExecution(World, t, s))
        ELSE UNCHANGED tr /\ UNCHANGED ShardSide
  /\ UNCHANGED <<op_seq, brief_tasks, request, atx>>

\* Variant that releases the barrier without invoking the callback.
RunQuickie_NoCallback(W, t, s) ==
  [W EXCEPT !.tr[t] = DecreaseRunCnt([@ EXCEPT !.local_mask[0] = @ \ {ARMED}, !.cb = FALSE])]

\* RunQuickie followed by the DecreaseRunCnt of schedule_cb.
RunQuickie(W, t, s) ==
  [W EXCEPT !.runlog[s] = Append(@, t),
            !.tr[t] = DecreaseRunCnt([@ EXCEPT !.local_mask[0] = @ \ {ARMED}, !.cb = FALSE])]

\* schedule_cb of ScheduleSingleHop: ScheduleUniqueShard on the shard thread.
ScheduleUniqueShard(t, s) ==
  /\ tr[t].pc = "wait_hop"
  /\ s \in brief_tasks[t]
  /\ brief_tasks' = [brief_tasks EXCEPT ![t] = @ \ {s}]
  /\ LET W == World
         T == tr[t]
         mode == Mode(W, t)
         lock_args == GetLockArgs(T, s)
     IN IF DbCheckLock(lock_table, mode, lock_args)
        THEN /\ Commit(RunQuickie(W, t, s))
             /\ UNCHANGED op_seq
        ELSE /\ op_seq <= MaxSeq
             /\ op_seq' = op_seq + 1
             /\ Commit(PollExecution(
                  [W EXCEPT !.tr[t].txid = op_seq,
                            !.tr[t].pq_pos[0] = FreeHandle(txq[s]),
                            !.txq[s] = TxqInsert(@, t, op_seq),
                            !.lock_table = DbAcquire(@, mode, lock_args),
                            !.held = HeldAdd(@, t, mode, lock_args, 1),
                            !.tr[t].local_mask[0] = @ \cup {KEYLOCK_ACQUIRED}],
                  NoTx, s))
  /\ UNCHANGED <<exec_tasks, request, atx>>

\* WaitForShardCallbacks returns and the hop is over.
HopDone(t) ==
  /\ tr[t].pc = "wait_hop"
  /\ tr[t].run_count = 0
  /\ LET T == tr[t]
         last == T.hop + 1 = CurCmd(t).hops
         next == IF ~last THEN "scheduled"
                 ELSE IF ~T.multi THEN "done"
                 ELSE IF T.cid < Len(request[t].cmds) THEN "next_cmd" ELSE "unlock"
     IN tr' = [tr EXCEPT ![t] = [T EXCEPT !.cb = FALSE, !.hop = @ + 1, !.pc = next]]
  /\ UNCHANGED <<op_seq, brief_tasks, exec_tasks, request, atx>>
  /\ UNCHANGED ShardSide


\* ------------------------------------------------------ multi transactions
SetExecCmdTail(T) ==
  [T EXCEPT !.unique_shard_cnt = 0, !.args = {}, !.cid = @ + 1, !.cb = FALSE,
            !.hop = 0, !.pc = "new"]

\* SetExecCmd(cid) of the next sub-command; the first call schedules the
\* transaction (under the command it was constructed with).
SetExecCmd(t) ==
  /\ \/ tr[t].pc = "next_cmd" /\ tr[t].cid < Len(request[t].cmds)
     \/ tr[t].pc = "setexec_tail"
  /\ IF tr[t].pc = "next_cmd" /\ tr[t].txid = 0
     THEN EnterScheduleInternal(t, tr[t], "setexec")
     ELSE /\ tr' = [tr EXCEPT ![t] = SetExecCmdTail(@)]
          /\ UNCHANGED brief_tasks
  /\ UNCHANGED <<op_seq, exec_tasks, request, atx>>
  /\ UNCHANGED ShardSide

\* UnlockMulti up to WaitForShardCallbacks; called when the last sub-command
\* is over, or right after scheduling by a script that issues no command.
UnlockMulti(t) ==
  /\ \/ tr[t].pc = "unlock"
     \/ /\ tr[t].pc = "next_cmd" /\ tr[t].cid = Len(request[t].cmds)
        /\ COORD_SCHED \in tr[t].coordinator_state
  /\ tr' = [tr EXCEPT ![t] = [@ EXCEPT !.run_count = @ + tr[t].sd_size, !.pc = "unlock_wait"]]
  /\ brief_tasks' = [brief_tasks EXCEPT ![t] = SlotRange(tr[t])]
  /\ UNCHANGED <<op_seq, exec_tasks, request, atx>>
  /\ UNCHANGED ShardSide

\* EngineShard::ShutdownMulti
ShutdownMulti(W, t, s) ==
  IF W.continuation_trans[s] = t THEN [W EXCEPT !.continuation_trans[s] = NoTx] ELSE W

\* Release(mode, db, key, count) for the recorded counts of the keys of shard s.
RECURSIVE ReleaseRecorded(_, _, _, _)
ReleaseRecorded(W, t, keys, locks) ==
  IF keys = {} THEN W
  ELSE LET k == CHOOSE x \in keys : TRUE
           rel(V, m) == IF locks[k][m] # 0
                        THEN [V EXCEPT !.lock_table = DbReleaseCount(@, m, k, locks[k][m]),
                                       !.held = HeldAdd(@, t, m, {k}, 0 - locks[k][m])]
                        ELSE V
       IN ReleaseRecorded(rel(rel(W, SHARED), EXCLUSIVE), t, keys \ {k}, locks)

\* The callback UnlockMulti adds to every shard.
UnlockMultiRec(W, t, s) ==
  LET T == W.tr[t]
      idx == SidToId(T, s)
      W1 == IF T.multi_global
            THEN [W EXCEPT !.shard_lock[s] = IntentRelease(@, EXCLUSIVE, 1),
                           !.sheld[t][s][EXCLUSIVE] = @ - 1]
            ELSE W
      W2 == ReleaseRecorded(W1, t, KeysIn(Keys, s), T.locks)
      W3 == IF T.pq_pos[idx] # kEnd
            THEN [W2 EXCEPT !.txq[s] = TxqPopFront(@), !.tr[t].pq_pos[idx] = kEnd]
            ELSE W2
      W4 == PollExecution(ProcessAwakened(ShutdownMulti(W3, t, s), NoTx, s), NoTx, s)
  IN [W4 EXCEPT !.tr[t] = DecreaseRunCnt(@)]

UnlockMultiCallback(t, s) ==
  /\ tr[t].pc = "unlock_wait"
  /\ s \in brief_tasks[t]
  /\ brief_tasks' = [brief_tasks EXCEPT ![t] = @ \ {s}]
  /\ Commit(UnlockMultiRec(World, t, s))
  /\ UNCHANGED <<op_seq, exec_tasks, request, atx>>

\* WaitForShardCallbacks of UnlockMulti returns.
UnlockMultiDone(t) ==
  /\ tr[t].pc = "unlock_wait"
  /\ tr[t].run_count = 0
  /\ tr' = [tr EXCEPT ![t].pc = "done"]
  /\ UNCHANGED <<op_seq, brief_tasks, exec_tasks, request, atx>>
  /\ UNCHANGED ShardSide


\* ------------------------------------------------------ blocking commands
\* WaitOnWatch up to the barrier of the hop that runs AddToWatchedShardCb:
\* Execute(cb, true).
WaitOnWatch(t) ==
  /\ tr[t].pc = "scheduled"
  /\ IsWatchHop(t)
  /\ LET T1 == [tr[t] EXCEPT !.cb = TRUE, !.watch = TRUE,
                            !.coordinator_state = @ \cup {COORD_EXEC, COORD_EXEC_CONCLUDING}]
     IN /\ tr' = [tr EXCEPT ![t] = [ExecuteAsyncRec(T1, FALSE) EXCEPT !.pc = "watch_hop"]]
        /\ exec_tasks' = ExecuteAsyncTasks(t, T1, FALSE)
  /\ UNCHANGED <<op_seq, brief_tasks, request, atx>>
  /\ UNCHANGED ShardSide

\* The hop is over (cb_ = nullptr); the coordinator sets COORD_BLOCKED and
\* suspends on blocking_ec_.
WaitOnWatchBlock(t) ==
  /\ tr[t].pc = "watch_hop"
  /\ tr[t].run_count = 0
  /\ tr' = [tr EXCEPT ![t] = [@ EXCEPT !.cb = FALSE, !.watch = FALSE, !.hop = @ + 1,
                                       !.coordinator_state = @ \cup {COORD_BLOCKED},
                                       !.pc = "wait"]]
  /\ UNCHANGED <<op_seq, brief_tasks, exec_tasks, request, atx>>
  /\ UNCHANGED ShardSide

\* Variant that looks at the cancellation only.
WakeCb_CancelOnly(T) == COORD_CANCELLED \in T.coordinator_state

\* wake_cb of WaitOnWatch
WakeCb(T) == COORD_CANCELLED \in T.coordinator_state \/ T.notify_txid # kuint64max

\* The shards ExpireBlocking adds expire_cb to.
ExpireBlockingShards(T) ==
  IF T.unique_shard_cnt = 1 THEN {T.unique_shard_id}
  ELSE {i \in SlotRange(T) : T.arg_count[i] # 0}

\* The shards WaitOnWatch adds converge_cb to.
ConvergeShards(T) == {i \in SlotRange(T) : T.arg_count[i] # 0}

\* WaitOnWatch from the return of await / await_until to its next suspension
\* point or its return; timeout is status == cv_status::timeout.
WaitOnWatchResume(t, T, timeout) ==
  IF COORD_CANCELLED \in T.coordinator_state \/ timeout
  THEN \* ExpireBlocking up to WaitForShardCallbacks
       /\ tr' = [tr EXCEPT ![t] = [T EXCEPT !.run_count = T.unique_shard_cnt,
                                            !.pc = "expire_wait"]]
       /\ brief_tasks' = [brief_tasks EXCEPT ![t] = ExpireBlockingShards(T)]
  ELSE IF T.unique_shard_cnt > 1
  THEN /\ tr' = [tr EXCEPT ![t] = [T EXCEPT !.run_count = T.unique_shard_cnt,
                                            !.pc = "converge_wait"]]
       /\ brief_tasks' = [brief_tasks EXCEPT ![t] = ConvergeShards(T)]
  ELSE /\ tr' = [tr EXCEPT ![t] = [T EXCEPT !.coordinator_state = @ \ {COORD_BLOCKED},
                                            !.wait_res = "true", !.pc = "done"]]
       /\ UNCHANGED brief_tasks

\* The waiter is resumed because wake_cb holds.
WaitOnWatchWake(t) ==
  /\ tr[t].pc = "wait"
  /\ WakeCb(tr[t])
  /\ WaitOnWatchResume(t, tr[t], FALSE)
  /\ UNCHANGED <<op_seq, exec_tasks, request, atx>>
  /\ UNCHANGED ShardSide

\* The waiter is resumed because the deadline has passed.  The timer of the
\* coordinator thread may fire while a shard thread is between its store to
\* notify_txid_ and its blocking_ec_.notify(), so wake_cb may hold already.
WaitOnWatchTimeout(t) ==
  /\ tr[t].pc = "wait"
  /\ request[t].multi = "wait_until"
  /\ WaitOnWatchResume(t, [tr[t] EXCEPT !.timed_out = TRUE], TRUE)
  /\ UNCHANGED <<op_seq, exec_tasks, request, atx>>
  /\ UNCHANGED ShardSide

\* Variant that leaves KEYLOCK_ACQUIRED in the slot.
ExpireMask_KeepFlag(mask) == mask \cup {EXPIRED_Q}

\* local_mask after expire_cb
ExpireMask(mask) == (mask \cup {EXPIRED_Q}) \ {KEYLOCK_ACQUIRED}

\* expire_cb of ExpireBlocking
ExpireCb(W, t, s) ==
  LET T == W.tr[t]
      lock_args == GetLockArgs(T, s)
      mode == Mode(W, t)
      sd_idx == SidToId(T, s)
      W1 == [W EXCEPT !.lock_table = DbRelease(@, mode, lock_args),
                      !.held = HeldAdd(@, t, mode, lock_args, -1),
                      !.tr[t].local_mask[sd_idx] = ExpireMask(@)]
      W2 == PollExecution(W1, NoTx, s)
  IN [W2 EXCEPT !.tr[t] = DecreaseRunCnt(@)]

ExpireCallback(t, s) ==
  /\ tr[t].pc = "expire_wait"
  /\ s \in brief_tasks[t]
  /\ brief_tasks' = [brief_tasks EXCEPT ![t] = @ \ {s}]
  /\ Commit(ExpireCb(World, t, s))
  /\ UNCHANGED <<op_seq, exec_tasks, request, atx>>

\* WaitForShardCallbacks of ExpireBlocking returns; WaitOnWatch returns false.
ExpireBlockingDone(t) ==
  /\ tr[t].pc = "expire_wait"
  /\ tr[t].run_count = 0
  /\ tr' = [tr EXCEPT ![t] = [@ EXCEPT !.coordinator_state = @ \ {COORD_BLOCKED},
                                       !.wait_res = "false", !.pc = "done"]]
  /\ UNCHANGED <<op_seq, brief_tasks, exec_tasks, request, atx>>
  /\ UNCHANGED ShardSide

\* EngineShard::HasResultConverged(notify): the shard has committed notify,
\* or has nothing queued that could still commit at or before it.
HasResultConverged(W, s, notify) ==
  \/ W.committed_txid[s] >= notify
  \/ \A i \in 1..Len(W.txq[s]) : W.txq[s][i].score > notify

\* The test of converge_cb: decrement at once, or WaitForConvergence.
ConvergeNow(W, t, s) ==
  AWAKED_Q \in W.tr[t].local_mask[s] \/ HasResultConverged(W, s, W.tr[t].notify_txid)

\* converge_cb of WaitOnWatch
ConvergeCallback(t, s) ==
  /\ tr[t].pc = "converge_wait"
  /\ s \in brief_tasks[t]
  /\ brief_tasks' = [brief_tasks EXCEPT ![t] = @ \ {s}]
  /\ IF ConvergeNow(World, t, s)
     THEN tr' = [tr EXCEPT ![t] = DecreaseRunCnt([@ EXCEPT !.conv_dec[s] = @ + 1])]
     ELSE tr' = [tr EXCEPT ![t].converging = @ \cup {s}]
  /\ UNCHANGED <<op_seq, exec_tasks, request, atx>>
  /\ UNCHANGED ShardSide

\* EngineShard::WaitForConvergence(notify, t): the shard decrements run_count
\* of the registered transaction once it has converged.
WaitForConvergence(t, s) ==
  /\ s \in tr[t].converging
  /\ HasResultConverged(World, s, tr[t].notify_txid)
  /\ tr' = [tr EXCEPT ![t] = DecreaseRunCnt([@ EXCEPT !.converging = @ \ {s},
                                                       !.conv_dec[s] = @ + 1])]
  /\ UNCHANGED <<op_seq, brief_tasks, exec_tasks, request, atx>>
  /\ UNCHANGED ShardSide

\* WaitForShardCallbacks of the convergence barrier returns; WaitOnWatch
\* lifts COORD_BLOCKED and returns true.
ConvergeDone(t) ==
  /\ tr[t].pc = "converge_wait"
  /\ tr[t].run_count = 0
  /\ tr' = [tr EXCEPT ![t] = [@ EXCEPT !.coordinator_state = @ \ {COORD_BLOCKED},
                                       !.wait_res = "true", !.pc = "done"]]
  /\ UNCHANGED <<op_seq, brief_tasks, exec_tasks, request, atx>>
  /\ UNCHANGED ShardSide

\* The slot moves from SUSPENDED_Q to AWAKED_Q.
AwakeSlot(mask) == (mask \ {SUSPENDED_Q}) \cup {AWAKED_Q}

\* Variant that stores the value passed by the last call.
ImproveNotify_Overwrite(notify_id, committed) == committed

\* The compare-exchange loop: notify_txid_ becomes the smaller of the two.
ImproveNotify(notify_id, committed) == IF committed < notify_id THEN committed ELSE notify_id

\* Variant without the test of EXPIRED_Q.
NotifySuspendedRec_IgnoreExpired(T, committed, sid) ==
  LET sd_id == SidToId(T, sid)
  IN [t |-> [T EXCEPT !.local_mask[sd_id] = AwakeSlot(@),
                      !.notify_txid = ImproveNotify(T.notify_txid, committed),
                      !.ec_notify = IF committed < T.notify_txid THEN @ + 1 ELSE @,
                      !.woke_with = @ \cup {committed}],
      res |-> TRUE]

\* NotifySuspended(committed_txid, sid) on a slot that has SUSPENDED_Q (the
\* call aborts otherwise).  The result is the transaction and the value returned.
NotifySuspendedRec(T, committed, sid) ==
  LET sd_id == SidToId(T, sid)
      local_mask == T.local_mask[sd_id]
      notify2 == ImproveNotify(T.notify_txid, committed)
  IN IF EXPIRED_Q \in local_mask THEN [t |-> T, res |-> FALSE]
     ELSE [t |-> [T EXCEPT !.local_mask[sd_id] = AwakeSlot(@),
                           !.notify_txid = notify2,
                           !.ec_notify = IF committed < T.notify_txid THEN @ + 1 ELSE @,
                           !.woke_with = @ \cup {committed}],
           res |-> TRUE]

\* A key the transaction watches on shard s became ready: after the
\* transaction registered there, another transaction that writes one of the
\* watched keys ran its callback on the shard.
WatchedKeyReady(t, s) ==
  \E i \in 1..Len(runlog[s]) : \E j \in (i + 1)..Len(runlog[s]) :
    /\ runlog[s][i] = t
    /\ runlog[s][j] # t
    /\ \E c \in 1..Len(request[runlog[s][j]].cmds) :
         LET cmd == request[runlog[s][j]].cmds[c]
         IN ~cmd.ro /\ cmd.keys \cap ShardArgsInShard(tr[t], s) # {}

\* The shard thread notifies the head of a watch queue with its committed_txid.
NotifySuspended(t, s) ==
  /\ SUSPENDED_Q \in tr[t].local_mask[SidToId(tr[t], s)]
  /\ WatchedKeyReady(t, s)
  /\ tr' = [tr EXCEPT ![t] = NotifySuspendedRec(@, committed_txid[s], s).t]
  /\ UNCHANGED <<op_seq, brief_tasks, exec_tasks, request, atx>>
  /\ UNCHANGED ShardSide

\* Variant that cancels whatever the coordinator state is.
BreakOnCloseRec_Always(T) ==
  [T EXCEPT !.coordinator_state = @ \cup {COORD_CANCELLED}, !.ec_notify = @ + 1]

BreakOnCloseRec(T) ==
  IF COORD_BLOCKED \in T.coordinator_state
  THEN [T EXCEPT !.coordinator_state = @ \cup {COORD_CANCELLED}, !.ec_notify = @ + 1]
  ELSE T

\* The connection of a blocking command closes while the command is being
\* executed: BreakOnClose runs on the coordinator thread while the coordinator
\* fiber is suspended.
BreakOnClose(t) ==
  /\ IsBlockingRequest(request[t])
  /\ tr[t].pc \notin {"new", "done"}
  /\ tr[t].breaks < MaxBreak
  /\ tr' = [tr EXCEPT ![t] = [BreakOnCloseRec(@) EXCEPT !.breaks = @ + 1]]
  /\ UNCHANGED <<op_seq, brief_tasks, exec_tasks, request, atx>>
  /\ UNCHANGED ShardSide

\* ------------------------------------------- InitByArgs: argument routing
\* The arguments of a command, kept in the caller's order.  args[1] is the
\* command name (index 0 of the CmdArgList), ArgS(args, i) the argument at
\* index i.  An argument is a record: its kind, the key it is or belongs to,
\* and the ordinal of that key in the command, so that a value is told from
\* the value of another key.
ArgTx == {1, 2}
KeyStarts == 1..MaxKeyStart
KeySteps == {1, 2}

Arg(kind, name, ord) == [kind |-> kind, name |-> name, ord |-> ord]

ArgS(args, i) == args[i + 1]

\* ConnectionContext/CommandId: name, (start - 1) leading arguments that are
\* not keys, then the keys, each followed by its value when step = 2.
KeyArgs(keys, step) ==
  [ j \in 1..(step * Len(keys)) |->
      IF step = 1 THEN Arg("key", keys[j], j)
      ELSE IF j % 2 = 1 THEN Arg("key", keys[(j + 1) \div 2], (j + 1) \div 2)
      ELSE Arg("val", keys[j \div 2], j \div 2) ]

CmdArgList(start, step, keys) ==
  <<Arg("cmd", "", 0)>> \o [j \in 1..(start - 1) |-> Arg("arg", "", j)] \o KeyArgs(keys, step)

\* DetermineKeys: the key range of the command.
KeyIndex(start, step, args) == [start |-> start, end |-> Len(args), step |-> step]

FindNone == [status |-> "KEY_NOTFOUND", pos |-> 0]

NewArgTransaction(multi, args, key_index) ==
  [ multi            |-> multi,
    cmd_args         |-> args,
    key_index        |-> key_index,
    inited           |-> FALSE,
    sd_size          |-> IF multi THEN Cardinality(Shards) ELSE 0,
    arg_start        |-> [i \in Slots |-> 0],
    arg_count        |-> [i \in Slots |-> 0],
    args_            |-> <<>>,
    reverse_index_   |-> <<>>,
    unique_shard_cnt |-> 0,
    unique_shard_id  |-> 0,
    find_res         |-> [s \in Shards |-> FindNone],
    found            |-> [status |-> "none", sid |-> 0, pos |-> 0],
    incremental      |-> multi,
    locks            |-> [k \in Keys |-> [m \in Modes |-> 0]],
    locks_recorded   |-> FALSE,
    cid_ro           |-> FALSE,
    sub_cmds         |-> 1,
    sub_log          |-> <<>>,
    unlocked         |-> FALSE,
    released         |-> [s \in Shards |-> {}] ]

\* No command has been issued.
NoArgCalls == [n \in ArgTx |-> NewArgTransaction(FALSE, <<>>, KeyIndex(1, 1, <<>>))]

\* Lines 207-223: the per-shard lists of arguments and of their original
\* positions (the position in the argument list after the command name).
PushArg_Drop(shard_index, sid, arg, i) == shard_index
PushArg(shard_index, sid, arg, i) ==
  [shard_index EXCEPT ![sid].args = Append(@, arg),
                      ![sid].original_index = Append(@, i - 1)]

RECURSIVE KeyLoop(_, _, _, _)
KeyLoop(args, key_index, i, shard_index) ==
  IF i >= key_index.end THEN shard_index
  ELSE LET key == ArgS(args, i)
           sid == Shard(key.name)
           si1 == [shard_index EXCEPT ![sid].args = Append(@, key),
                                      ![sid].original_index = Append(@, i - 1)]
           si2 == IF key_index.step = 2
                  THEN PushArg(si1, sid, ArgS(args, i + 1), i + 1)
                  ELSE si1
       IN KeyLoop(args, key_index, i + key_index.step, si2)

\* Lines 200-214: tmp_space.uniq_keys is cleared by every call, and a key
\* that is inserted for the first time adds one unit in the mode of cid_.
UniqInsert_Always(uniq_keys, key) == TRUE
UniqInsert(uniq_keys, key) == key \notin uniq_keys

RECURSIVE RecordLocks(_, _, _, _, _, _)
RecordLocks(args, key_index, i, uniq_keys, mode, locks) ==
  IF i >= key_index.end THEN locks
  ELSE LET key == ArgS(args, i).name
       IN RecordLocks(args, key_index, i + key_index.step, uniq_keys \cup {key}, mode,
                      IF UniqInsert(uniq_keys, key)
                      THEN [locks EXCEPT ![key][mode] = @ + 1]
                      ELSE locks)

\* Lines 237-267: args_ and reverse_index_ are filled shard by shard; next_arg
\* is the end of what has been filled.
NextArg_Stuck(T) == 0
NextArg(T) == Len(T.args_)

RECURSIVE FillShards(_, _, _)
FillShards(T, shard_index, i) ==
  IF i >= Cardinality(Shards) THEN T
  ELSE LET si == shard_index[i]
           T1 == [T EXCEPT !.arg_count[i] = Len(si.args),
                           !.arg_start[i] = NextArg(T)]
           T2 == IF Len(si.args) = 0 THEN T1
                 ELSE [T1 EXCEPT !.unique_shard_cnt = @ + 1,
                                 !.unique_shard_id = i,
                                 !.args_ = @ \o si.args,
                                 !.reverse_index_ = @ \o si.original_index]
       IN FillShards(T2, shard_index, i + 1)

\* Lines 272-282: a transaction on one shard keeps no slice.
UniqueShardFixup(T) ==
  IF T.unique_shard_cnt # 1 THEN T
  ELSE IF T.multi
       THEN [T EXCEPT !.arg_count[T.unique_shard_id] = -1,
                      !.arg_start[T.unique_shard_id] = -1]
       ELSE [T EXCEPT !.sd_size = 1, !.arg_count[0] = -1, !.arg_start[0] = -1]

\* Lines 143-293 for a command with keys that does not span all shards.
InitByArgsSeq(T) ==
  LET args == T.cmd_args
      key_index == T.key_index
      single_key == ~T.multi /\ key_index.start + key_index.step >= key_index.end
      empty_index == [s \in Shards |-> [args |-> <<>>, original_index |-> <<>>]]
      incremental_locking == T.multi /\ T.incremental
      mode == IF T.multi THEN (IF T.cid_ro THEN SHARED ELSE EXCLUSIVE) ELSE EXCLUSIVE
      should_record_locks == T.multi /\ (incremental_locking \/ ~T.locks_recorded)
      locks2 == IF should_record_locks
                THEN RecordLocks(args, key_index, key_index.start, {}, mode, T.locks)
                ELSE T.locks
  IN IF single_key
     THEN [T EXCEPT !.inited = TRUE,
                    !.sd_size = 1,
                    !.args_ = SubSeq(args, key_index.start + 1,
                                     key_index.start + key_index.step),
                    !.unique_shard_cnt = 1,
                    !.unique_shard_id = Shard(ArgS(args, key_index.start).name)]
     ELSE UniqueShardFixup(
            FillShards([T EXCEPT !.inited = TRUE, !.sd_size = Cardinality(Shards),
                                 !.locks = locks2,
                                 !.locks_recorded = IF T.multi THEN TRUE ELSE @,
                                 !.args_ = <<>>, !.reverse_index_ = <<>>],
                       KeyLoop(args, key_index, key_index.start, empty_index), 0))

\* Lines 959-971, as the sequence of the arguments.
ShardArgsInShardSeq(T, sid) ==
  IF T.unique_shard_cnt = 1 THEN T.args_
  ELSE SubSeq(T.args_, T.arg_start[SidToId(T, sid)] + 1,
              T.arg_start[SidToId(T, sid)] + T.arg_count[SidToId(T, sid)])

\* Lines 973-978.
ReverseArgIndex(T, shard_id, arg_index) ==
  IF T.unique_shard_cnt = 1 THEN arg_index
  ELSE T.reverse_index_[T.arg_start[SidToId(T, shard_id)] + arg_index + 1]

\* FindFirstProcessor::Process, lines 65-94.  acc is min_arg_indx with the
\* result found so far.
ArgIndxLess_Greater(arg_indx, min_arg_indx) ==
  min_arg_indx = UINT32_MAX \/ arg_indx > min_arg_indx
ArgIndxLess(arg_indx, min_arg_indx) == arg_indx < min_arg_indx

RECURSIVE ProcessLoop(_, _, _)
ProcessLoop(T, sid, acc) ==
  IF sid >= Cardinality(Shards)
  THEN IF acc.sid = kInvalidSid
       THEN [status |-> "KEY_NOTFOUND", sid |-> kInvalidSid, pos |-> 0]
       ELSE [status |-> "OK", sid |-> acc.sid, pos |-> acc.pos]
  ELSE LET fr == T.find_res[sid]
       IN IF fr.status = "KEY_NOTFOUND" THEN ProcessLoop(T, sid + 1, acc)
          ELSE IF fr.status = "WRONG_TYPE"
          THEN [status |-> "WRONG_TYPE", sid |-> kInvalidSid, pos |-> 0]
          ELSE LET arg_indx == ReverseArgIndex(T, sid, fr.pos)
               IN ProcessLoop(T, sid + 1,
                    IF ArgIndxLess(arg_indx, acc.min_arg_indx)
                    THEN [min_arg_indx |-> arg_indx, sid |-> sid, pos |-> fr.pos]
                    ELSE acc)

Process(T) ==
  ProcessLoop(T, 0, [min_arg_indx |-> UINT32_MAX, sid |-> kInvalidSid, pos |-> 0])

\* The shards the hop of FindFirstProcessor::Find runs on.
FindShards(T) ==
  IF T.unique_shard_cnt = 1 THEN {T.unique_shard_id}
  ELSE {s \in Shards : T.arg_count[SidToId(T, s)] > 0}

\* DbSlice::FindFirst on the arguments of one shard: no key of the type, a
\* key of another type, or the position in the slice of the first key found.
\* A shard whose committed_txid is not the notified one leaves its find_res
\* at KEY_NOTFOUND (line 57).
FindResults(T, sid) ==
  IF sid \notin FindShards(T) THEN {FindNone}
  ELSE {FindNone, [status |-> "WRONG_TYPE", pos |-> 0]}
       \cup { [status |-> "OK", pos |-> p - 1] :
                p \in {q \in 1..Len(ShardArgsInShardSeq(T, sid)) :
                         ShardArgsInShardSeq(T, sid)[q].kind = "key"} }

\* The keys of a command in the caller's order, for the log of the calls.
KeyNames(args, key_index) ==
  [j \in 1..((key_index.end - key_index.start + key_index.step - 1) \div key_index.step) |->
     ArgS(args, key_index.start + (j - 1) * key_index.step).name]

\* The next sub-command of a batch: the same command without its first key
\* (and that key's value), a write and a read in turn.  The first
\* sub-command, a write, is the one the transaction starts with.
NextSubCmdArgs(T) ==
  CmdArgList(T.key_index.start, T.key_index.step, Tail(KeyNames(T.cmd_args, T.key_index)))

\* Transaction::SetExecCmd, lines 295-312, of a scheduled batch.
SetExecCmdRec(T) ==
  LET args == NextSubCmdArgs(T)
  IN [T EXCEPT !.unique_shard_cnt = 0,
               !.args_ = <<>>,
               !.cid_ro = (T.sub_cmds % 2 = 1),
               !.cmd_args = args,
               !.key_index = KeyIndex(T.key_index.start, T.key_index.step, args),
               !.sub_cmds = @ + 1,
               !.inited = FALSE]

SetExecCmdCall(n) ==
  /\ atx[n].multi
  /\ ~atx[n].unlocked
  /\ atx[n].sub_cmds < MaxSubCmds
  /\ atx[n].inited
  /\ Len(KeyNames(atx[n].cmd_args, atx[n].key_index)) > 1
  /\ atx' = [atx EXCEPT ![n] = SetExecCmdRec(@)]
  /\ UNCHANGED <<op_seq, txq, committed_txid, shard_lock, lock_table, continuation_trans,
                 tr, brief_tasks, exec_tasks, request, runlog, held, sheld>>

\* Transaction::InitByArgs on one of the two transactions.
InitByArgsCall(n) ==
  /\ ~atx[n].inited
  /\ atx' = [atx EXCEPT ![n] =
               [InitByArgsSeq(@) EXCEPT !.sub_log =
                  Append(@, [ro |-> atx[n].cid_ro,
                             keys |-> KeyNames(atx[n].cmd_args, atx[n].key_index)])]]
  /\ UNCHANGED <<op_seq, txq, committed_txid, shard_lock, lock_table, continuation_trans,
                 tr, brief_tasks, exec_tasks, request, runlog, held, sheld>>

\* Transaction::FindFirst, lines 1155-1161: the hop, then Process.
FindFirst(n) ==
  /\ atx[n].inited
  /\ ~atx[n].unlocked
  /\ atx[n].found.status = "none"
  /\ \E res \in [Shards -> UNION {FindResults(atx[n], s) : s \in Shards}] :
       /\ \A s \in Shards : res[s] \in FindResults(atx[n], s)
       /\ atx' = [atx EXCEPT ![n] = [atx[n] EXCEPT !.find_res = res,
                                 !.found = Process([atx[n] EXCEPT !.find_res = res])]]
  /\ UNCHANGED <<op_seq, txq, committed_txid, shard_lock, lock_table, continuation_trans,
                 tr, brief_tasks, exec_tasks, request, runlog, held, sheld>>

\* Transaction::UnlockMulti, lines 595-617: the keys of multi_->locks are
\* grouped by shard, and the callback of a shard calls Release for every
\* mode of a key with a non-zero count.
ShardedKeys(locks, sid) == {k \in DOMAIN locks : Shard(k) = sid}

ReleaseCalls(locks, sid) ==
  { [mode |-> p[2], key |-> p[1], count |-> locks[p[1]][p[2]]] :
      p \in {q \in ShardedKeys(locks, sid) \X Modes : locks[q[1]][q[2]] # 0} }

UnlockMultiCall(n) ==
  /\ atx[n].multi
  /\ atx[n].inited
  /\ ~atx[n].unlocked
  /\ atx' = [atx EXCEPT ![n] = [@ EXCEPT !.unlocked = TRUE,
                                         !.released = [s \in Shards |-> ReleaseCalls(atx[n].locks, s)]]]
  /\ UNCHANGED <<op_seq, txq, committed_txid, shard_lock, lock_table, continuation_trans,
                 tr, brief_tasks, exec_tasks, request, runlog, held, sheld>>

\* ------------------------------------------------------------ specification
\* The state in which the next txid to be drawn is seq.
InitStateAt(reqs, seq) ==
  /\ op_seq = seq
  /\ txq = [s \in Shards |-> <<>>]
  /\ committed_txid = [s \in Shards |-> 0]
  /\ shard_lock = [s \in Shards |-> FreeLock]
  /\ lock_table = [k \in Keys |-> FreeLock]
  /\ continuation_trans = [s \in Shards |-> NoTx]
  /\ request \in reqs
  /\ tr = [t \in Tx |-> NewTransaction(request[t])]
  /\ brief_tasks = [t \in Tx |-> {}]
  /\ exec_tasks = [t \in Tx |-> [s \in Shards |-> 0]]
  /\ runlog = [s \in Shards |-> <<>>]
  /\ held = [t \in Tx |-> [k \in Keys |-> FreeLock]]
  /\ sheld = [t \in Tx |-> [s \in Shards |-> FreeLock]]

InitState(reqs) == InitStateAt(reqs, 1)

Plain(global, ro, keys, hops) == Request("none", <<Cmd(global, ro, keys, hops)>>)

\* A connection that issues no command.
Idle == Request("none", <<>>)

\* Plain commands: single-key and multi-key, one and two hops, a reader, and
\* a span-all command.  MULTI/EXEC batches (constructed with the span-all
\* EXEC command, locking incrementally) and scripts (EVAL, locking their
\* declared keys at once), the last one a script that issues no command.
RequestList ==
  << Plain(FALSE, FALSE, {"a"}, 1),
     Plain(FALSE, FALSE, {"a", "b"}, 1),
     Plain(FALSE, FALSE, {"a", "b"}, 2),
     Plain(FALSE, FALSE, {"c", "b"}, 1),
     Plain(FALSE, TRUE, {"a", "b"}, 1),
     Plain(TRUE, FALSE, {}, 1),
     Plain(FALSE, FALSE, {"b"}, 2),
     Request("exec", <<Cmd(TRUE, FALSE, {}, 1), Cmd(FALSE, FALSE, {"a"}, 1),
                       Cmd(FALSE, FALSE, {"a", "b"}, 1)>>),
     Request("exec", <<Cmd(TRUE, FALSE, {}, 1), Cmd(FALSE, TRUE, {"a"}, 1),
                       Cmd(FALSE, FALSE, {"a"}, 2)>>),
     Request("eval", <<Cmd(FALSE, FALSE, {"a", "b"}, 1), Cmd(FALSE, FALSE, {"a"}, 1)>>),
     Request("eval", <<Cmd(FALSE, FALSE, {"a", "b"}, 1), Cmd(FALSE, FALSE, {"a", "b"}, 2)>>),
     Request("eval", <<Cmd(FALSE, FALSE, {"b"}, 1)>>) >>

\* The requests of RequestList that are one command outside a batch or
\* script.
PlainRequests == { i \in DOMAIN RequestList : ~IsMultiRequest(RequestList[i]) }

\* A script with a command of more than one hop.
LongScript(req) == req.multi = "eval" /\ \E i \in DOMAIN req.cmds : req.cmds[i].hops > 1

\* Two connections issue one request each, concurrently (the transactions
\* are interchangeable, so each pair of requests is taken once). Here one
\* of the two is a command outside a batch or script.
RequestPairs ==
  { <<RequestList[p[1]], RequestList[p[2]], Idle>> :
      p \in {q \in PlainRequests \X (DOMAIN RequestList) :
                q[1] <= q[2] /\ ~LongScript(RequestList[q[2]])} }

\* The other pairs: both connections issue a batch or a script, or one of
\* them issues a script with a command of more than one hop.
MultiPairs ==
  { <<RequestList[p[1]], RequestList[p[2]], Idle>> :
      p \in {q \in (DOMAIN RequestList) \X ((DOMAIN RequestList) \ PlainRequests) :
                q[1] <= q[2] /\ (q[1] \notin PlainRequests \/ LongScript(RequestList[q[2]]))} }

\* A single-hop command on one key, or on two keys, next to a batch that
\* starts with a global command.
QuickiePair ==
  { <<RequestList[1], RequestList[8], Idle>>, <<RequestList[2], RequestList[8], Idle>> }

\* Three connections: two two-hop commands on key "b" next to a script that
\* declares key "b" and issues no command.
RequestTriples == { <<RequestList[7], RequestList[7], RequestList[12]>> }

\* Three connections: two single-hop commands on keys "a" and "b" next to
\* the same script.
RequestTriples2 == { <<RequestList[2], RequestList[2], RequestList[12]>> }

Init == InitState(RequestPairs) /\ atx = NoArgCalls

Next ==
  \E t \in Tx :
    \/ InitByArgs(t)
    \/ ScheduleSingleHop(t)
    \/ Schedule(t)
    \/ ScheduleAttempt(t)
    \/ ScheduleCheck(t)
    \/ ExecuteAsync(t)
    \/ Execute(t)
    \/ HopDone(t)
    \/ SetExecCmd(t)
    \/ UnlockMulti(t)
    \/ UnlockMultiDone(t)
    \/ \E s \in Shards :
         \/ LockShard(t, s)
         \/ ScheduleInShard(t, s)
         \/ CancelInShard(t, s)
         \/ ScheduleUniqueShard(t, s)
         \/ ExecCallback(t, s)
         \/ UnlockMultiCallback(t, s)

Spec == Init /\ [][Next]_vars

\* The same system for the pairs of requests left out above.
InitM == InitState(MultiPairs \cup QuickiePair) /\ atx = NoArgCalls

SpecM == InitM /\ [][Next]_vars

\* The same system with three connections. A script that issued no command
\* has come and gone before, so txid 1 is taken.
Init3 ==
  InitStateAt(RequestTriples \cup RequestTriples2 \cup QuickiePair, 2) /\ atx = NoArgCalls

Spec3 == Init3 /\ [][Next]_vars

\* Blocking commands next to plain commands.  The blocking command watches
\* keys "a" and "b" (two shards) or key "a" alone, with or without a deadline,
\* with or without a hop before the wait; the other connections write the
\* watched keys.
Blocking(deadline, keys, hops) ==
  Request(IF deadline THEN "wait_until" ELSE "wait", <<Cmd(FALSE, FALSE, keys, hops)>>)

RequestsB ==
  { <<Blocking(FALSE, {"a", "b"}, 1), RequestList[2], Idle>>,
    <<Blocking(TRUE, {"a"}, 2), RequestList[1], Idle>>,
    <<Blocking(TRUE, {"a", "b"}, 1), RequestList[1], Plain(FALSE, FALSE, {"b"}, 1)>> }

InitB == InitState(RequestsB) /\ atx = NoArgCalls

\* The steps of a run in which no connection closes.
NextBF ==
  \E t \in Tx :
    \/ InitByArgs(t)
    \/ ScheduleSingleHop(t)
    \/ Schedule(t)
    \/ ScheduleAttempt(t)
    \/ ScheduleCheck(t)
    \/ ExecuteAsync(t)
    \/ Execute(t)
    \/ HopDone(t)
    \/ WaitOnWatch(t)
    \/ WaitOnWatchBlock(t)
    \/ WaitOnWatchWake(t)
    \/ WaitOnWatchTimeout(t)
    \/ ExpireBlockingDone(t)
    \/ ConvergeDone(t)
    \/ \E s \in Shards :
         \/ ScheduleInShard(t, s)
         \/ CancelInShard(t, s)
         \/ ScheduleUniqueShard(t, s)
         \/ ExecCallback(t, s)
         \/ ExpireCallback(t, s)
         \/ ConvergeCallback(t, s)
         \/ WaitForConvergence(t, s)
         \/ NotifySuspended(t, s)

NextB == NextBF \/ \E t \in Tx : BreakOnClose(t)

SpecB == InitB /\ [][NextB]_vars

\* The steps of the coordinator fiber of a transaction and of a shard thread.
\* The closing of the connection, the deadline and the readiness of a watched
\* key are events of the environment.
CoordinatorStep(t) ==
  \/ InitByArgs(t)
  \/ ScheduleSingleHop(t)
  \/ Schedule(t)
  \/ ScheduleAttempt(t)
  \/ ScheduleCheck(t)
  \/ ExecuteAsync(t)
  \/ Execute(t)
  \/ HopDone(t)
  \/ WaitOnWatch(t)
  \/ WaitOnWatchBlock(t)
  \/ WaitOnWatchWake(t)
  \/ ExpireBlockingDone(t)
  \/ ConvergeDone(t)

ShardStep(s) ==
  \E t \in Tx :
    \/ ScheduleInShard(t, s)
    \/ CancelInShard(t, s)
    \/ ScheduleUniqueShard(t, s)
    \/ ExecCallback(t, s)
    \/ ExpireCallback(t, s)
    \/ ConvergeCallback(t, s)
    \/ WaitForConvergence(t, s)

\* A step of some coordinator fiber or of some shard thread.
ProgressB == \E t \in Tx : CoordinatorStep(t) \/ \E s \in Shards : ShardStep(s)

\* In RequestsB the blocking command is the request of the first connection.
BlockingTx == {1}

\* Two connections; the coordinator fibers and the shard threads do not all
\* stop while one of them can take a step.
RequestsBF ==
  { <<Blocking(FALSE, {"a", "b"}, 1), RequestList[2], Idle>>,
    <<Blocking(TRUE, {"a"}, 2), RequestList[1], Idle>> }

InitBF == InitState(RequestsBF) /\ atx = NoArgCalls

SpecBF ==
  /\ InitBF
  /\ [][NextBF]_vars
  /\ WF_vars(ProgressB)

\* Argument routing: one command shape (position of the first key, step,
\* inside MULTI or not) issued by two connections, the first with any key
\* list up to MaxKeys keys, the second with the same list where every key
\* carries the hash tag of shard 0.
KeyLists == UNION {[1..n -> Keys] : n \in 1..MaxKeys}

Tagged(keys) == [j \in 1..Len(keys) |-> IF Shard(keys[j]) = 0 THEN keys[j] ELSE "c"]

ArgCalls ==
  { [n \in ArgTx |->
       LET args == CmdArgList(start, step, IF n = 1 THEN keys ELSE Tagged(keys))
       IN NewArgTransaction(multi, args, KeyIndex(start, step, args))] :
    start \in KeyStarts, step \in KeySteps, multi \in BOOLEAN, keys \in KeyLists }

InitArgs == InitState({<<Idle, Idle, Idle>>}) /\ atx \in ArgCalls

NextArgs == \E n \in ArgTx : InitByArgsCall(n) \/ FindFirst(n)

SpecArgs == InitArgs /\ [][NextArgs]_vars

\* The scheduling loop under contention: two writers of the keys a and b, on
\* two shards, scheduling concurrently.  The coordinator fiber of every
\* transaction and every task a shard thread has been given are weakly fair.
RequestsL == {<<Plain(FALSE, FALSE, {"a", "b"}, 1), Plain(FALSE, FALSE, {"a", "b"}, 1), Idle>>}

InitL == InitState(RequestsL) /\ atx = NoArgCalls

CoordinatorL(t) ==
  \/ InitByArgs(t) \/ ScheduleSingleHop(t) \/ ScheduleAttemptR(t) \/ ScheduleCheck(t)
  \/ ExecuteAsync(t) \/ HopDone(t)

ShardL(t, s) == ScheduleInShard(t, s) \/ CancelInShard(t, s) \/ ExecCallback(t, s)

NextL == \E t \in Tx : CoordinatorL(t) \/ \E s \in Shards : ShardL(t, s)

FairL ==
  \A t \in Tx : /\ WF_vars(CoordinatorL(t))
                 /\ \A s \in Shards : WF_vars(ShardL(t, s))

SpecL == InitL /\ [][NextL]_vars /\ FairL

\* Lock recording: one MULTI/EXEC batch of up to MaxSubCmds sub-commands
\* over any key list, unlocked after any of them.
BatchTx == {1}

BatchCalls ==
  { [n \in ArgTx |->
       IF n \in BatchTx
       THEN LET args == CmdArgList(start, step, keys)
            IN NewArgTransaction(TRUE, args, KeyIndex(start, step, args))
       ELSE NoArgCalls[n]] :
    start \in KeyStarts, step \in KeySteps, keys \in KeyLists }

InitLocks == InitState({<<Idle, Idle, Idle>>}) /\ atx \in BatchCalls

NextLocks == \E n \in BatchTx : InitByArgsCall(n) \/ SetExecCmdCall(n) \/ UnlockMultiCall(n)

SpecLocks == InitLocks /\ [][NextLocks]_vars

\* ------------------------------------------------ local_mask as an integer
\* The flags of LocalMask, one bit each, in a 16-bit unsigned local_mask.
LocalMaskFlags == {ARMED, OUT_OF_ORDER, KEYLOCK_ACQUIRED, SUSPENDED_Q, AWAKED_Q, EXPIRED_Q}

FlagBit(f) ==
  CASE f = ARMED -> 1
    [] f = OUT_OF_ORDER -> 2
    [] f = KEYLOCK_ACQUIRED -> 4
    [] f = SUSPENDED_Q -> 16
    [] f = AWAKED_Q -> 32
    [] f = EXPIRED_Q -> 64

RECURSIVE MaskOf(_)
MaskOf(flags) ==
  IF flags = {} THEN 0
  ELSE LET f == CHOOSE x \in flags : TRUE IN FlagBit(f) + MaskOf(flags \ {f})

\* Conversion to uint16_t.
Uint16(x) == x % 65536

RECURSIVE BitAnd(_, _)
BitAnd(x, y) ==
  IF x = 0 \/ y = 0 THEN 0
  ELSE (x % 2) * (y % 2) + 2 * BitAnd(x \div 2, y \div 2)

BitOr(x, y) == x + y - BitAnd(x, y)

FlagsOf(mask) == {f \in LocalMaskFlags : BitAnd(mask, FlagBit(f)) # 0}

\* constexpr uint16_t kQueueMask = -SUSPENDED_Q | AWAKED_Q | EXPIRED_Q
kQueueMask ==
  BitOr(BitOr(Uint16(0 - FlagBit(SUSPENDED_Q)), FlagBit(AWAKED_Q)), FlagBit(EXPIRED_Q))

\* RemoveFromWatchedShardCb on a slot: the slot after the call and the value
\* returned; watched tells whether the shard still lists the transaction.
RemoveFromWatchedShardCbRec(sd) ==
  IF BitAnd(sd.local_mask, kQueueMask) = 0
  THEN [sd |-> sd, res |-> FALSE]
  ELSE [sd |-> [sd EXCEPT !.local_mask = BitAnd(@, kQueueMask), !.watched = FALSE],
        res |-> TRUE]

\* UnregisterWatch runs RemoveFromWatchedShardCb on the shard of the slot.
RemoveFromWatchedShardCb ==
  /\ atx.calls = 0
  /\ LET r == RemoveFromWatchedShardCbRec(atx.sd)
     IN atx' = [atx EXCEPT !.sd = r.sd, !.res = r.res, !.calls = 1]
  /\ UNCHANGED <<op_seq, txq, committed_txid, shard_lock, lock_table, continuation_trans,
                 tr, brief_tasks, exec_tasks, request, runlog, held, sheld>>

\* A slot with any combination of the flags; the shard lists the transaction
\* as a watcher when a queue flag is set.
InitMask ==
  /\ InitState({<<Idle, Idle, Idle>>})
  /\ \E flags \in SUBSET LocalMaskFlags :
       atx = [sd |-> [local_mask |-> MaskOf(flags),
                      watched |-> flags \cap {SUSPENDED_Q, AWAKED_Q, EXPIRED_Q} # {}],
              before |-> flags, res |-> FALSE, calls |-> 0]

NextMask == RemoveFromWatchedShardCb

SpecMask == InitMask /\ [][NextMask]_vars

\* ================================================================ properties

\* C1: two transactions that are scheduled without COORD_OOO and touch a
\* common shard have their callbacks first invoked on that shard in the order
\* of their txids: once the one with the larger txid has run there, the one
\* with the smaller txid has run there before it (a multi transaction that
\* never runs on the shard is left out).
C1_TxidOrder ==
  LET Ran(t, s) == \E i \in 1..Len(runlog[s]) : runlog[s][i] = t
      First(t, s) == CHOOSE i \in 1..Len(runlog[s]) :
                       runlog[s][i] = t /\ \A j \in 1..(i - 1) : runlog[s][j] # t
      Touched(t) == IF request[t].cmds[1].global THEN Shards
                    ELSE {Shard(k) : k \in request[t].cmds[1].keys}
      SchedInOrder(t) == /\ request[t].cmds # <<>>
                         /\ COORD_SCHED \in tr[t].coordinator_state
                         /\ COORD_OOO \notin tr[t].coordinator_state
  IN \A t1 \in Tx, t2 \in Tx, s \in Shards :
       ( /\ t1 # t2 /\ SchedInOrder(t1) /\ SchedInOrder(t2)
         /\ tr[t1].txid < tr[t2].txid
         /\ s \in Touched(t1) \cap Touched(t2)
         /\ Ran(t2, s)
         /\ (Ran(t1, s) \/ ~tr[t1].multi) )
       => (Ran(t1, s) /\ First(t1, s) < First(t2, s))

\* C2: two transactions with conflicting keys on two common shards have their
\* callbacks first invoked in the same relative order on both shards, whether
\* or not they were scheduled with COORD_OOO.
C2_SameOrderOnShards ==
  LET Ran(t, s) == \E i \in 1..Len(runlog[s]) : runlog[s][i] = t
      First(t, s) == CHOOSE i \in 1..Len(runlog[s]) :
                       runlog[s][i] = t /\ \A j \in 1..(i - 1) : runlog[s][j] # t
      ReqKeys(t) == UNION {request[t].cmds[i].keys : i \in 1..Len(request[t].cmds)}
      Excl(t, k) == \E i \in 1..Len(request[t].cmds) :
                      k \in request[t].cmds[i].keys /\ ~request[t].cmds[i].ro
      Conflict(t1, t2, s) == \E k \in ReqKeys(t1) \cap ReqKeys(t2) :
                               Shard(k) = s /\ (Excl(t1, k) \/ Excl(t2, k))
  IN \A t1 \in Tx, t2 \in Tx, s1 \in Shards, s2 \in Shards :
       ( /\ t1 # t2 /\ s1 # s2
         /\ Conflict(t1, t2, s1) /\ Conflict(t1, t2, s2)
         /\ Ran(t1, s1) /\ Ran(t2, s1) /\ Ran(t1, s2) /\ Ran(t2, s2) )
       => ((First(t1, s1) < First(t2, s1)) <=> (First(t1, s2) < First(t2, s2)))

\* C3: from the return of ScheduleInternal (COORD_SCHED) until the first hop
\* runs on a shard, the queue of every shard touched at scheduling holds
\* exactly one entry for the transaction, the one pq_pos refers to, and the
\* queue of no other shard holds it (up to the transaction's own UnlockMulti).
C3_OneQueueEntry ==
  LET Ran(t, s) == \E i \in 1..Len(runlog[s]) : runlog[s][i] = t
      Entries(t, s) == {i \in 1..Len(txq[s]) : txq[s][i].t = t}
      Touched(t) == IF request[t].cmds[1].global THEN Shards
                    ELSE {Shard(k) : k \in request[t].cmds[1].keys}
      Live(t) == tr[t].pc \notin {"unlock_wait", "done"}
  IN \A t \in Tx :
       (COORD_SCHED \in tr[t].coordinator_state /\ Live(t)) =>
          \A s \in Shards :
             IF s \in Touched(t)
             THEN Ran(t, s) \/ ( /\ Cardinality(Entries(t, s)) = 1
                                 /\ \A i \in Entries(t, s) :
                                      txq[s][i].h = tr[t].pq_pos[SidToId(tr[t], s)] )
             ELSE Entries(t, s) = {}

\* C4: COORD_OOO is set only at the exit of ScheduleInternal, for a single-hop
\* transaction that is not global and for which every touched shard returned
\* lock_granted in the successful attempt, no shard having seen a contended
\* key or a held shard lock; the OUT_OF_ORDER slot flag is then set in every
\* slot, and is never present without COORD_OOO.
C4_OOOOnlyWhenGranted ==
  [][\A t \in Tx :
       /\ (COORD_OOO \notin tr[t].coordinator_state /\ COORD_OOO \in tr'[t].coordinator_state) =>
            /\ COORD_EXEC_CONCLUDING \in tr[t].coordinator_state
            /\ ~CurCmd(t).global
            /\ tr[t].pc = "sched_wait" /\ COORD_SCHED \in tr'[t].coordinator_state
            /\ tr[t].denied_in = {}
            /\ tr[t].granted_in = ActiveShards(tr[t], FALSE)
            /\ \A i \in SlotRange(tr[t]) : OUT_OF_ORDER \in tr'[t].local_mask[i]
       /\ (\E i \in Slots : OUT_OF_ORDER \in tr'[t].local_mask[i]) =>
            /\ COORD_OOO \in tr'[t].coordinator_state
            /\ COORD_EXEC_CONCLUDING \in tr'[t].coordinator_state
            /\ ~CurCmd(t).global]_vars

\* A two-shard single-hop transaction has been marked COORD_OOO.
C4_Witness ==
  \E t \in Tx :
    /\ COORD_OOO \in tr[t].coordinator_state
    /\ tr[t].unique_shard_cnt = 2
    /\ tr[t].granted_in = {0, 1}
    /\ \A i \in Slots : OUT_OF_ORDER \in tr[t].local_mask[i]

C6_ConcludedReleased ==
  \A t \in Tx :
    (request[t].cmds # <<>> /\ ~tr[t].multi /\ ~CurCmd(t).global) =>
      /\ \A k \in Keys, m \in Modes : held[t][k][m] \in {0, 1}
      /\ tr[t].pc = "done" =>
           \A s \in ActiveShards(tr[t], FALSE) :
             LET mask == tr[t].local_mask[SidToId(tr[t], s)]
             IN SUSPENDED_Q \notin mask =>
                  /\ KEYLOCK_ACQUIRED \notin mask
                  /\ OUT_OF_ORDER \notin mask
                  /\ ~TxqHas(txq[s], t)
                  /\ tr[t].pq_pos[SidToId(tr[t], s)] = kEnd
                  /\ \A k \in KeysIn(Keys, s), m \in Modes :
                       held[t][k][m] = 0 /\ lock_table[k][m] >= 0

\* A two-shard, two-hop transaction that went through the queues has
\* concluded on both shards.
C6_Witness ==
  \E t \in Tx :
    /\ ~tr[t].multi /\ tr[t].pc = "done"
    /\ tr[t].unique_shard_cnt = 2 /\ tr[t].hop = 2 /\ tr[t].txid > 0
    /\ \A s \in Shards : \E i \in 1..Len(runlog[s]) : runlog[s][i] = t

C8_UnlockMultiClean ==
  \A t \in Tx :
    (tr[t].multi /\ tr[t].pc = "done") =>
      /\ \A k \in Keys, m \in Modes : held[t][k][m] = 0
      /\ \A s \in Shards, m \in Modes : sheld[t][s][m] = 0
      /\ \A i \in Slots : tr[t].pq_pos[i] = kEnd
      /\ \A s \in Shards : ~TxqHas(txq[s], t)

\* C9: during a hop run_count equals the number of armed slots, i.e. of
\* shards that have not run the hop yet, and outside of a hop (and of
\* UnlockMulti) it is zero with no slot armed, so the coordinator passes
\* WaitForShardCallbacks exactly when every armed shard has run; on every shard
\* the callback has been invoked once per finished hop that armed the shard,
\* plus once if the shard has already run the current hop; run_count is never
\* negative.
C9_RunCountBarrier ==
  \A t \in Tx :
    LET T == tr[t]
        cmds == request[t].cmds
        Armed == {i \in Slots : ARMED \in T.local_mask[i]}
        Times(s) == Cardinality({i \in 1..Len(runlog[s]) : runlog[s][i] = t})
        CmdShards(i) == IF cmds[i].global THEN Shards ELSE {Shard(k) : k \in cmds[i].keys}
        \* hops of the earlier sub-commands of a multi transaction on shard s
        EarlierHops(s) ==
          LET RECURSIVE Sum(_)
              Sum(i) == IF i >= T.cid THEN 0
                        ELSE (IF s \in CmdShards(i) THEN cmds[i].hops ELSE 0) + Sum(i + 1)
          IN IF T.multi THEN Sum(2) ELSE 0
        Executes == cmds # <<>> /\ (T.multi => T.cid > 1)
        InHop == T.pc = "wait_hop"
        RanThisHop(s) == InHop /\ s \in CmdShards(T.cid) /\ ARMED \notin T.local_mask[SidToId(T, s)]
        Expected(s) == IF ~Executes THEN 0
                       ELSE EarlierHops(s) + (IF s \in CmdShards(T.cid) THEN T.hop ELSE 0)
                                           + (IF RanThisHop(s) THEN 1 ELSE 0)
    IN /\ T.run_count >= 0
       /\ InHop => T.run_count = Cardinality(Armed)
       /\ T.pc \notin {"wait_hop", "unlock_wait"} => (T.run_count = 0 /\ Armed = {})
       /\ \A s \in Shards : Times(s) = Expected(s)

\* In the second hop of a two-shard transaction one shard has run the hop and
\* the other has not: the coordinator is still waiting with run_count 1.
C9_Witness ==
  \E t \in Tx :
    /\ tr[t].pc = "wait_hop" /\ tr[t].hop = 1 /\ tr[t].unique_shard_cnt = 2
    /\ tr[t].run_count = 1
    /\ \E s \in Shards : Cardinality({i \in 1..Len(runlog[s]) : runlog[s][i] = t}) = 2
    /\ \E s \in Shards : Cardinality({i \in 1..Len(runlog[s]) : runlog[s][i] = t}) = 1

\* C10: ScheduleSingleHop of a non-multi, non-global transaction on one shard.
\* The step of ScheduleUniqueShard either finds no conflict and runs the
\* callback at once (txid stays 0, no queue entry, no key lock), or takes a
\* fresh txid, enters the queue and acquires the key lock, the callback being
\* run by RunInShard as the head of the queue (in the same poll or a later
\* one: committed_txid moves up to its txid or past it), which releases the
\* lock and the barrier.  The barrier is passed only
\* after the callback ran, and it ran exactly once.
C10_UniqueShardOnce ==
  [][\A t \in Tx, s \in Shards :
       LET T == tr[t]
           T2 == tr'[t]
           Times(log) == Cardinality({i \in 1..Len(log[s]) : log[s][i] = t})
           Unique == /\ request[t].cmds # <<>> /\ ~T.multi /\ ~CurCmd(t).global
                     /\ CurCmd(t).hops = 1 /\ T.unique_shard_cnt = 1 /\ T.unique_shard_id = s
           keys == CurCmd(t).keys
           mode == IF CurCmd(t).ro THEN SHARED ELSE EXCLUSIVE
           step == T.pc = "wait_hop" /\ s \in brief_tasks[t] /\ s \notin brief_tasks'[t]
       IN Unique =>
            /\ (step /\ DbCheckLock(lock_table, mode, keys)) =>
                 /\ T2.txid = 0 /\ op_seq' = op_seq
                 /\ Times(runlog') = 1 /\ T2.run_count = 0
                 /\ txq' = txq /\ T2.pq_pos[0] = kEnd
                 /\ lock_table' = lock_table /\ KEYLOCK_ACQUIRED \notin T2.local_mask[0]
            /\ (step /\ ~DbCheckLock(lock_table, mode, keys)) =>
                 /\ T2.txid = op_seq /\ T2.txid > 0 /\ op_seq' = op_seq + 1
                 /\ \/ /\ Times(runlog') = 0 /\ T2.run_count = 1
                       /\ TxqHas(txq'[s], t) /\ T2.pq_pos[0] # kEnd
                       /\ KEYLOCK_ACQUIRED \in T2.local_mask[0]
                       /\ \A k \in keys : held'[t][k][mode] = 1
                    \/ /\ Times(runlog') = 1 /\ T2.run_count = 0
                       /\ committed_txid[s] < T2.txid /\ committed_txid'[s] >= T2.txid
                       /\ ~TxqHas(txq'[s], t) /\ T2.pq_pos[0] = kEnd
                       /\ KEYLOCK_ACQUIRED \notin T2.local_mask[0]
                       /\ \A k \in keys : held'[t][k][mode] = 0
            /\ (T.pc = "wait_hop" /\ T2.pc # "wait_hop") => (T2.pc = "done" /\ Times(runlog) = 1)
            /\ Times(runlog') <= 1
            /\ (Times(runlog) = 0 /\ Times(runlog') = 1 /\ T.txid # 0) =>
                 /\ committed_txid[s] < T.txid /\ committed_txid'[s] >= T.txid
                 /\ T2.run_count = 0]_vars

\* The transaction found its key locked, was queued with a txid, and its
\* callback was run later from the queue; ScheduleSingleHop has returned.
C10_Witness ==
  \E t \in Tx :
    /\ request[t].cmds # <<>> /\ ~tr[t].multi /\ tr[t].unique_shard_cnt = 1
    /\ CurCmd(t).hops = 1 /\ ~CurCmd(t).global
    /\ tr[t].pc = "done" /\ tr[t].txid > 0
    /\ \E i \in 1..Len(runlog[tr[t].unique_shard_id]) : runlog[tr[t].unique_shard_id][i] = t

\* The shards a non-global transaction touches.
TouchedShards(T) == ExpireBlockingShards(T)

\* WaitOnWatch has been entered and has not returned.
InWaitOnWatch(T) == T.pc \in {"watch_hop", "wait", "expire_wait", "converge_wait"}

\* C11: when WaitOnWatch has returned false, it did so after a timeout or a
\* cancellation, COORD_BLOCKED is clear, every touched slot has EXPIRED_Q set
\* and KEYLOCK_ACQUIRED clear, and every key lock unit the transaction
\* acquired has been released exactly once (none is held, none was released
\* twice), also when NotifySuspended awoke a slot before expire_cb ran there;
\* a wait whose deadline fired never returns true.
C11_ExpiredOnFalse ==
  \A t \in Tx :
    /\ \A k \in Keys : \A m \in Modes : held[t][k][m] \in {0, 1}
    /\ tr[t].timed_out => tr[t].wait_res # "true"
    /\ tr[t].wait_res = "false" =>
         /\ tr[t].timed_out \/ COORD_CANCELLED \in tr[t].coordinator_state
         /\ COORD_BLOCKED \notin tr[t].coordinator_state
         /\ \A s \in TouchedShards(tr[t]) :
              /\ EXPIRED_Q \in tr[t].local_mask[SidToId(tr[t], s)]
              /\ KEYLOCK_ACQUIRED \notin tr[t].local_mask[SidToId(tr[t], s)]
         /\ \A k \in Keys : \A m \in Modes : held[t][k][m] = 0

\* A wait on two shards that timed out although one shard had awakened it.
C11_Witness ==
  \E t \in Tx :
    /\ tr[t].wait_res = "false"
    /\ tr[t].timed_out
    /\ tr[t].unique_shard_cnt = 2
    /\ \E s \in Shards : AWAKED_Q \in tr[t].local_mask[s]

MinOf(S) == CHOOSE x \in S : \A y \in S : x <= y

\* C12: notify_txid is the minimum of the committed_txid values passed by the
\* NotifySuspended calls that awoke a slot (the sentinel when none did), it
\* never increases, and no slot has SUSPENDED_Q and AWAKED_Q together.
C12_NotifyMin ==
  /\ [](\A t \in Tx :
          /\ tr[t].notify_txid = MinOf(tr[t].woke_with \cup {kuint64max})
          /\ \A i \in Slots : ~({SUSPENDED_Q, AWAKED_Q} \subseteq tr[t].local_mask[i]))
  /\ [][\A t \in Tx : tr'[t].notify_txid <= tr[t].notify_txid]_vars

\* Two shards awoke the transaction with different committed_txid values.
C12_Witness ==
  \E t \in Tx :
    /\ Cardinality(tr[t].woke_with) = 2
    /\ \A s \in Shards : AWAKED_Q \in tr[t].local_mask[s]

\* C14 (as stated): a transaction with COORD_BLOCKED set is at the head of
\* the tx-queue of every shard it touches and has KEYLOCK_ACQUIRED there.
C14_BlockedAtHead ==
  \A t \in Tx : COORD_BLOCKED \in tr[t].coordinator_state =>
    \A s \in TouchedShards(tr[t]) :
      /\ txq[s] # <<>>
      /\ TxqFront(txq[s]) = t
      /\ KEYLOCK_ACQUIRED \in tr[t].local_mask[SidToId(tr[t], s)]

\* C14 (amended): a transaction with COORD_BLOCKED set is in no tx-queue
\* (the hop that registered it removed it); on every touched shard its slot
\* is SUSPENDED_Q or AWAKED_Q, and until expire_cb has run there it holds its
\* key locks with KEYLOCK_ACQUIRED set.
C14_BlockedKeepsLocks ==
  \A t \in Tx : COORD_BLOCKED \in tr[t].coordinator_state =>
    \A s \in TouchedShards(tr[t]) :
      LET mask == tr[t].local_mask[SidToId(tr[t], s)]
      IN /\ tr[t].pq_pos[SidToId(tr[t], s)] = kEnd
         /\ ~TxqHas(txq[s], t)
         /\ SUSPENDED_Q \in mask \/ AWAKED_Q \in mask
         /\ EXPIRED_Q \notin mask =>
              /\ KEYLOCK_ACQUIRED \in mask
              /\ \A k \in ShardArgsInShard(tr[t], s) : held[t][k][Mode(World, t)] = 1

\* A blocked transaction while another transaction heads the queue of a
\* shard it touches.
C14_Witness ==
  \E t \in Tx : \E s \in TouchedShards(tr[t]) :
    /\ COORD_BLOCKED \in tr[t].coordinator_state
    /\ tr[t].pc = "wait"
    /\ txq[s] # <<>>
    /\ TxqFront(txq[s]) # t

\* C15: every call of BreakOnClose made between the entry of WaitOnWatch and
\* its return leaves COORD_CANCELLED set, and a WaitOnWatch during which
\* BreakOnClose was called does not return true.
C15_BreakNotLost ==
  [][\A t \in Tx :
       (tr'[t].breaks = tr[t].breaks + 1 /\ InWaitOnWatch(tr[t]))
         => COORD_CANCELLED \in tr'[t].coordinator_state]_vars

\* C16: a call of BreakOnClose changes nothing but coordinator_state and the
\* event count; made while COORD_BLOCKED is clear it changes neither and
\* notifies nobody; made while COORD_CANCELLED is set it leaves
\* coordinator_state as it is; and one more call would not change
\* coordinator_state again.
C16_BreakIdempotent ==
  [][\A t \in Tx : tr'[t].breaks = tr[t].breaks + 1 =>
       /\ tr'[t] = [tr[t] EXCEPT !.breaks = tr'[t].breaks,
                                 !.coordinator_state = tr'[t].coordinator_state,
                                 !.ec_notify = tr'[t].ec_notify]
       /\ COORD_BLOCKED \notin tr[t].coordinator_state =>
            /\ tr'[t].coordinator_state = tr[t].coordinator_state
            /\ tr'[t].ec_notify = tr[t].ec_notify
       /\ COORD_CANCELLED \in tr[t].coordinator_state =>
            tr'[t].coordinator_state = tr[t].coordinator_state
       /\ BreakOnCloseRec(tr'[t]).coordinator_state = tr'[t].coordinator_state]_vars

\* BreakOnClose was called twice while the transaction was blocked, and once
\* more is not possible; the wait has ended.
C16_Witness ==
  \E t \in Tx :
    /\ tr[t].breaks = 2
    /\ tr[t].ec_notify = 2
    /\ tr[t].wait_res = "false"

\* C13: a waiting transaction that some shard has awakened, whose deadline
\* does not fire and whose connection does not call BreakOnClose, eventually
\* returns true from WaitOnWatch; and a multi-shard WaitOnWatch that has
\* returned true has passed the convergence barrier: every touched shard has
\* run converge_cb and decremented run_count exactly once, and its slot is
\* AWAKED_Q or the shard has converged on notify_txid.
C13_WakeReturnsTrue ==
  /\ [](\A t \in Tx : (tr[t].wait_res = "true" /\ tr[t].unique_shard_cnt > 1) =>
          /\ brief_tasks[t] = {}
          /\ tr[t].converging = {}
          /\ \A s \in Shards :
               IF s \in TouchedShards(tr[t])
               THEN /\ tr[t].conv_dec[s] = 1
                    /\ \/ AWAKED_Q \in tr[t].local_mask[s]
                       \/ HasResultConverged(World, s, tr[t].notify_txid)
               ELSE tr[t].conv_dec[s] = 0)
  /\ \A t \in BlockingTx :
       (tr[t].pc = "wait" /\ tr[t].woke_with # {} /\ tr[t].breaks = 0)
         ~> (tr[t].wait_res = "true" \/ tr[t].timed_out \/ tr[t].breaks > 0)

\* A two-shard wait returned true after one shard had awakened it and the
\* other one had to converge first.
C13_Witness ==
  \E t \in Tx :
    /\ tr[t].wait_res = "true"
    /\ tr[t].unique_shard_cnt = 2
    /\ tr[t].breaks = 0
    /\ \E s \in Shards : SUSPENDED_Q \in tr[t].local_mask[s]

\* The router applied to the caller's argument list: the keys of T on shard
\* s, and its keys and values on shard s in the caller's order.
KeysRouted(T, s) ==
  Cardinality({j \in 1..Len(T.cmd_args) :
                 T.cmd_args[j].kind = "key" /\ Shard(T.cmd_args[j].name) = s})

RECURSIVE ArgsRoutedFrom(_, _, _)
ArgsRoutedFrom(T, s, j) ==
  IF j > Len(T.cmd_args) THEN <<>>
  ELSE (IF T.cmd_args[j].kind \in {"key", "val"} /\ Shard(T.cmd_args[j].name) = s
        THEN <<T.cmd_args[j]>> ELSE <<>>) \o ArgsRoutedFrom(T, s, j + 1)

ArgsRouted(T, s) == ArgsRoutedFrom(T, s, 1)

SingleKey(T) == ~T.multi /\ T.key_index.start + T.key_index.step >= T.key_index.end

\* The slice of shard slot i, as index interval of args_ and as sequence.
SliceRange(T, i) == (T.arg_start[i] + 1)..(T.arg_start[i] + T.arg_count[i])

Slice(T, i) == SubSeq(T.args_, T.arg_start[i] + 1, T.arg_start[i] + T.arg_count[i])

\* C17 (as stated): after InitByArgs arg_count of every shard is the number
\* of keys of the transaction that the router maps to the shard.
C17_ArgCountIsKeys ==
  \A n \in ArgTx : atx[n].inited =>
    \A s \in Shards : atx[n].arg_count[SidToId(atx[n], s)] = KeysRouted(atx[n], s)

\* C17 (amended): after InitByArgs unique_shard_cnt is the number of shards
\* with a key.  When it is above 1, arg_count of every shard is the number of
\* arguments routed to it: step times the number of its keys.  When it is 1
\* arg_count is no count: the slot of the shard (the only slot when not multi)
\* holds -1, or the untouched 0 after the single-key path.
C17_ArgCount ==
  \A n \in ArgTx : atx[n].inited =>
    LET T == atx[n]
    IN /\ T.unique_shard_cnt = Cardinality({s \in Shards : KeysRouted(T, s) > 0})
       /\ T.unique_shard_cnt > 1 =>
            /\ T.sd_size = Cardinality(Shards)
            /\ \A s \in Shards : T.arg_count[s] = T.key_index.step * KeysRouted(T, s)
       /\ T.unique_shard_cnt = 1 =>
            /\ KeysRouted(T, T.unique_shard_id) > 0
            /\ IF T.multi
               THEN /\ T.sd_size = Cardinality(Shards)
                    /\ \A s \in Shards :
                         T.arg_count[s] = IF s = T.unique_shard_id THEN -1 ELSE 0
               ELSE /\ T.sd_size = 1
                    /\ T.arg_count[0] = IF SingleKey(T) THEN 0 ELSE -1

C17_Witness ==
  /\ atx[1].inited /\ atx[2].inited
  /\ atx[1].key_index.step = 2
  /\ atx[1].unique_shard_cnt = 2
  /\ \E s \in Shards : KeysRouted(atx[1], s) = 2
  /\ atx[2].unique_shard_cnt = 1

\* The position of the argument at index i of the caller's list under an
\* indexing convention: counted from the command name, from the argument
\* after the name, or from the first key.
Conventions == {"args", "after_name", "first_key"}

CallerPos(conv, T, i) ==
  IF conv = "args" THEN i
  ELSE IF conv = "after_name" THEN i - 1
  ELSE i - T.key_index.start

\* Index in the caller's list of the key with ordinal ord.
KeyIndexOf(T, ord) == T.key_index.start + (ord - 1) * T.key_index.step

\* C18: the same command issued twice, once with the keys tagged to one
\* shard: one indexing convention exists under which ReverseArgIndex of
\* every key of both transactions is the caller's position of the key.
C18_RoundTrip ==
  (atx[1].inited /\ atx[2].inited) =>
    \E conv \in Conventions :
      \A n \in ArgTx : \A s \in FindShards(atx[n]) :
        \A p \in 1..Len(ShardArgsInShardSeq(atx[n], s)) :
          LET a == ShardArgsInShardSeq(atx[n], s)[p]
          IN a.kind = "key" =>
               ReverseArgIndex(atx[n], s, p - 1) =
                 CallerPos(conv, atx[n], KeyIndexOf(atx[n], a.ord))

\* C19: after InitByArgs on a transaction on several shards the slice of every
\* shard holds the keys, each followed by its value, that the router maps to
\* the shard, in the caller's order; the slices are disjoint and cover args_;
\* ShardArgsInShard returns the slice, and the whole of args_ when all keys
\* are on one shard.
C19_Slices ==
  \A n \in ArgTx : atx[n].inited =>
    LET T == atx[n]
    IN /\ Len(T.args_) = T.key_index.end - T.key_index.start
       /\ T.unique_shard_cnt > 1 =>
            /\ \A s \in Shards : /\ Slice(T, s) = ArgsRouted(T, s)
                                 /\ ShardArgsInShardSeq(T, s) = Slice(T, s)
            /\ \A s1, s2 \in Shards : s1 # s2 => SliceRange(T, s1) \cap SliceRange(T, s2) = {}
            /\ UNION {SliceRange(T, s) : s \in Shards} = 1..Len(T.args_)
       /\ T.unique_shard_cnt = 1 =>
            /\ ShardArgsInShardSeq(T, T.unique_shard_id) = T.args_
            /\ T.args_ = ArgsRouted(T, T.unique_shard_id)
            /\ T.args_ = SubSeq(T.cmd_args, T.key_index.start + 1, T.key_index.end)

C19_Witness ==
  /\ atx[1].inited /\ atx[1].unique_shard_cnt = 2
  /\ atx[1].key_index.step = 2
  /\ \E s \in Shards :
       /\ KeysRouted(atx[1], s) = 2
       /\ Slice(atx[1], s)[1].ord = 1 /\ Slice(atx[1], s)[3].ord = 3
  /\ atx[2].inited /\ atx[2].unique_shard_cnt = 1

\* The ordinal in the caller's command of the key a shard has found.
FoundOrd(T, s) == ShardArgsInShardSeq(T, s)[T.find_res[s].pos + 1].ord

\* C20: FindFirst returns WRONG_TYPE when a shard reported WRONG_TYPE;
\* otherwise KEY_NOTFOUND when no shard found a key; otherwise the shard and
\* the finding of the key that comes first in the caller's command among the
\* keys the shards found.
C20_FindFirst ==
  \A n \in ArgTx : atx[n].found.status # "none" =>
    LET T == atx[n]
        ok == {s \in Shards : T.find_res[s].status = "OK"}
    IN IF \E s \in Shards : T.find_res[s].status = "WRONG_TYPE"
       THEN T.found.status = "WRONG_TYPE"
       ELSE IF ok = {} THEN T.found.status = "KEY_NOTFOUND"
       ELSE /\ T.found.status = "OK"
            /\ T.found.sid \in ok
            /\ T.found.pos = T.find_res[T.found.sid].pos
            /\ \A s \in ok : FoundOrd(T, T.found.sid) <= FoundOrd(T, s)
            /\ \A s \in ok : ReverseArgIndex(T, T.found.sid, T.found.pos)
                               <= ReverseArgIndex(T, s, T.find_res[s].pos)

C20_Witness ==
  /\ atx[1].found.status = "OK"
  /\ atx[1].found.sid = 1
  /\ atx[1].find_res[0].status = "OK"
  /\ atx[1].key_index.start = 2
  /\ atx[2].found.status = "WRONG_TYPE"

\* C21: for a batch that records locks per sub-command, after InitByArgs has
\* run for a sequence of sub-commands, multi.locks[key].cnt[mode] is the
\* number of sub-commands of that mode in which the key occurs (a repeated
\* key of one sub-command counts once), and UnlockMulti calls Release with
\* exactly that count for each key and mode with a non-zero count, on the
\* shard the router maps the key to.
SubCmdMode(entry) == IF entry.ro THEN SHARED ELSE EXCLUSIVE

Occurs(key, entry) == \E j \in 1..Len(entry.keys) : entry.keys[j] = key

SubCmdCount(T, key, mode) ==
  Cardinality({j \in 1..Len(T.sub_log) :
                 SubCmdMode(T.sub_log[j]) = mode /\ Occurs(key, T.sub_log[j])})

C21_LockCounts ==
  \A n \in BatchTx :
    atx[n].multi /\ atx[n].incremental =>
      /\ \A k \in Keys, m \in Modes : atx[n].locks[k][m] = SubCmdCount(atx[n], k, m)
      /\ atx[n].unlocked =>
           \A s \in Shards :
             atx[n].released[s] =
               { [mode |-> m, key |-> k, count |-> SubCmdCount(atx[n], k, m)] :
                   k \in {x \in Keys : Shard(x) = s},
                   m \in Modes } \ { [mode |-> m, key |-> k, count |-> 0] : k \in Keys, m \in Modes }

\* A batch of three sub-commands, one of them with a repeated key, has been
\* unlocked with a count of two and calls on both shards.
C21_Witness ==
  \E n \in BatchTx :
    /\ atx[n].multi /\ atx[n].unlocked
    /\ Len(atx[n].sub_log) = 3
    /\ \E j \in 1..3 : \E a, b \in 1..Len(atx[n].sub_log[j].keys) :
         a # b /\ atx[n].sub_log[j].keys[a] = atx[n].sub_log[j].keys[b]
    /\ \E k \in Keys : atx[n].locks[k][EXCLUSIVE] = 2 /\ atx[n].locks[k][SHARED] = 1
    /\ \A s \in Shards : atx[n].released[s] # {}

\* C22: after a scheduling attempt in which fewer than all active shards
\* returned scheduled = true, and the CancelInShard round that follows, the
\* transaction is in no shard's queue, pq_pos is kEnd and KEYLOCK_ACQUIRED is
\* clear on every active shard, every key lock taken in the attempt has been
\* released exactly once, and the next attempt uses a txid strictly greater
\* than every txid the transaction used before.
Cancelled(t) == tr[t].pc = "cancel_wait" /\ brief_tasks[t] = {}

C22_CancelRestores ==
  /\ [](\A t \in Tx : Cancelled(t) =>
          /\ tr[t].success = 0
          /\ \A s \in Shards : ~TxqHas(txq[s], t)
          /\ \A s \in ActiveShards(tr[t], CurCmd(t).global) :
               /\ tr[t].pq_pos[SidToId(tr[t], s)] = kEnd
               /\ KEYLOCK_ACQUIRED \notin tr[t].local_mask[SidToId(tr[t], s)]
          /\ \A k \in Keys, m \in Modes : held[t][k][m] = 0)
  /\ [][\A t \in Tx : (Cancelled(t) /\ tr'[t].pc = "sched_wait") =>
           /\ tr'[t].txid > tr[t].txid
           /\ tr'[t].txid >= op_seq
           /\ op_seq' > op_seq]_vars

\* The second attempt of a transaction on two shards, begun after its first
\* one was cancelled: again one shard has queued it and granted its locks
\* and the other one has refused.
C22_Witness ==
  \E t \in Tx :
    /\ tr[t].pc = "sched_wait"
    /\ tr[t].attempts = 2
    /\ tr[t].unique_shard_cnt = 2
    /\ tr[t].granted_in # {}
    /\ tr[t].denied_in # {}
    /\ tr[t].success = 1
    /\ brief_tasks[t] = {}

\* C23: whenever the callback of UnlockMulti finds on a shard that the multi
\* transaction still has a queue entry (pq_pos != kEnd), the transaction is
\* the head of the shard's queue, so that PopFront removes its own entry and
\* never the entry of a transaction scheduled there with a lower txid.
C23_UnlockPopsSelf ==
  \A t \in Tx, s \in Shards :
    (tr[t].pc = "unlock_wait" /\ s \in brief_tasks[t]
       /\ tr[t].pq_pos[SidToId(tr[t], s)] # kEnd) =>
      /\ txq[s] # <<>>
      /\ TxqFront(txq[s]) = t

\* C24: with a finite set of concurrently scheduling transactions and fair
\* shard threads every call of ScheduleInternal terminates with COORD_SCHED
\* set: the schedule/cancel/retry loop cannot repeat for ever.
InScheduleInternal(t) == tr[t].pc \in {"sched_loop", "sched_wait", "cancel_wait"}

C24_ScheduleTerminates ==
  \A t \in Tx : InScheduleInternal(t) ~> (COORD_SCHED \in tr[t].coordinator_state)

\* C25: a callback dispatched by ExecuteAsync for a hop passes the
\* transaction to PollExecution only if seqlock still equals the snapshot
\* and the slot is ARMED; a callback that arrives after the coordinator has
\* passed the barrier of its hop, also when the slot was re-armed for a
\* later hop, passes no transaction to PollExecution.
\* Two callbacks of a transaction are pending on a shard only when the
\* coordinator has dispatched a later hop, that is after the barrier of the
\* hop of the older one, which is the one that runs next.
StaleCallback(t, s) == exec_tasks[t][s] >= 2

GlobalTx(t) == request[t].cmds # <<>> /\ request[t].cmds[1].global

AcqMode(t) == IF request[t].cmds[1].ro THEN SHARED ELSE EXCLUSIVE

\* The whole-shard locks of a global transaction: one unit per shard in the
\* mode of its command from the first scheduling attempt on, whatever the
\* number of attempts, never a unit in the other mode or a negative count,
\* and none left when the transaction is over.
ShardLockOnce(t) ==
  /\ \A s \in Shards : /\ sheld[t][s][AcqMode(t)] \in {0, 1}
                       /\ sheld[t][s][OtherMode(AcqMode(t))] = 0
  /\ (tr[t].attempts >= 1 /\ tr[t].pc \in {"sched_wait", "cancel_wait", "scheduled", "exec_async"})
        => \A s \in Shards : sheld[t][s][AcqMode(t)] = 1
  /\ tr[t].pc = "done" => \A s \in Shards : sheld[t][s][AcqMode(t)] = 0

\* C26 (as stated): a global transaction takes no per-key lock on any shard,
\* acquires the whole-shard lock of every shard exactly once in
\* ScheduleInternal however many attempts are retried, and releases it
\* exactly once per shard in the mode it was acquired in.
C26_GlobalNoKeyLocks ==
  \A t \in Tx : GlobalTx(t) =>
    /\ ShardLockOnce(t)
    /\ \A k \in Keys, m \in Modes : held[t][k][m] = 0

\* C26 (amended): the whole-shard lock as stated; a global transaction that
\* is not multi takes no per-key lock, and a global multi transaction holds
\* of a key at most the units InitByArgs has recorded for its sub-commands.
C26_GlobalLocks ==
  \A t \in Tx : GlobalTx(t) =>
    /\ ShardLockOnce(t)
    /\ \A k \in Keys, m \in Modes :
         /\ held[t][k][m] >= 0
         /\ held[t][k][m] <= IF tr[t].multi THEN tr[t].locks[k][m] ELSE 0

\* A global command that needed two scheduling attempts is over, while a
\* global batch holds a key lock of a sub-command next to its shard locks.
C26_Witness ==
  /\ \E t \in Tx : /\ GlobalTx(t) /\ ~tr[t].multi
                   /\ tr[t].attempts >= 2 /\ tr[t].pc = "done"
  /\ \E t \in Tx : /\ GlobalTx(t) /\ tr[t].multi
                   /\ \E k \in Keys : held[t][k][EXCLUSIVE] >= 1
                   /\ \A s \in Shards : sheld[t][s][EXCLUSIVE] = 1

\* The slot of shard s has expired while it was suspended.
ExpiredSuspended(t, s) ==
  /\ s \in TouchedShards(tr[t])
  /\ {SUSPENDED_Q, EXPIRED_Q} \subseteq tr[t].local_mask[SidToId(tr[t], s)]

\* C27: NotifySuspended on a slot that has EXPIRED_Q set returns false and
\* leaves the transaction as it is (the flags of the slot, notify_txid and
\* the condition variable included), whatever committed_txid is passed; and
\* a slot that has EXPIRED_Q never gains AWAKED_Q, keeps EXPIRED_Q, and the
\* waiter is not notified by a shard from then on unless another slot of the
\* transaction is awakened.
C27_ExpiredNotNotified ==
  /\ [](\A t \in Tx, s \in Shards : ExpiredSuspended(t, s) =>
          \A c \in 0..MaxSeq :
            NotifySuspendedRec(tr[t], c, s) = [t |-> tr[t], res |-> FALSE])
  /\ [][\A t \in Tx, i \in Slots :
          EXPIRED_Q \in tr[t].local_mask[i] =>
            /\ EXPIRED_Q \in tr'[t].local_mask[i]
            /\ AWAKED_Q \in tr'[t].local_mask[i] => AWAKED_Q \in tr[t].local_mask[i]
            /\ SUSPENDED_Q \in tr'[t].local_mask[i] <=> SUSPENDED_Q \in tr[t].local_mask[i]]_vars

\* The wait on two shards timed out; the slot of one shard has expired while
\* suspended, a writer of the watched key has run there since the
\* transaction registered, so the shard notifies the slot, and the other
\* shard has not run expire_cb yet.
C27_Witness ==
  \E t \in Tx, s \in Shards :
    /\ ExpiredSuspended(t, s)
    /\ WatchedKeyReady(t, s)
    /\ tr[t].unique_shard_cnt = 2
    /\ tr[t].pc = "expire_wait"

\* C28 (as stated): RemoveFromWatchedShardCb on a slot with any of
\* SUSPENDED_Q, AWAKED_Q, EXPIRED_Q set returns true, clears SUSPENDED_Q and
\* preserves every other flag of local_mask; on a slot with none of the three
\* set it returns false and changes nothing.
C28_RemoveClearsSuspended ==
  atx.calls = 1 =>
    IF atx.before \cap {SUSPENDED_Q, AWAKED_Q, EXPIRED_Q} # {}
    THEN /\ atx.res
         /\ FlagsOf(atx.sd.local_mask) = atx.before \ {SUSPENDED_Q}
    ELSE /\ ~atx.res
         /\ FlagsOf(atx.sd.local_mask) = atx.before

\* The step runs the callback of t on shard s through RunQuickie: the
\* callback is logged and the transaction has drawn no txid.
QuickieRuns(t, s) ==
  /\ runlog'[s] = Append(runlog[s], t)
  /\ tr'[t].txid = 0

\* Transaction g holds the whole-shard lock of s in a mode that conflicts
\* with the mode of t.
ShardLockConflict(g, t, s) ==
  \E m \in Modes : /\ sheld[g][s][m] > 0
                   /\ (m = EXCLUSIVE \/ AcqMode(t) = EXCLUSIVE)

\* C29 (as stated): while a global transaction holds the whole-shard lock of
\* a shard, no single-shard transaction with a conflicting mode runs its
\* callback on that shard through ScheduleUniqueShard / RunQuickie.
C29_NoQuickieUnderShardLock ==
  [][\A t \in Tx, s \in Shards :
       QuickieRuns(t, s) => \A g \in Tx \ {t} : ~ShardLockConflict(g, t, s)]_vars

====
